---- MODULE Spec2Model ----
(***************************************************************************)
(* Model of the swe_docker differential validator                          *)
(* (src/swe_docker/validator.py): parse_log, ValidationResult and the      *)
(* validate_image procedure with its container life cycle; and of the      *)
(* three-tier image builder (src/swe_docker/builder.py): the image keys    *)
(* of an InstanceSpec and build_instance_images with its worker pools and  *)
(* log files; and of the build and validate commands (src/swe_docker/      *)
(* cli.py) with build_from_dataset; and of one call of                     *)
(* _exec_in_container with its worker thread, of parse_log on its own and  *)
(* of compare_results (src/r2e_docker/validator.py).                       *)
(*                                                                         *)
(* Text is modelled as a sequence of lines, a line as a sequence of        *)
(* tokens (strings).  The token " " is white space, the token ESC is one   *)
(* whole ANSI colour sequence, every other token is a run of printable     *)
(* characters.  A sentinel is a sequence of two tokens, so that a colour   *)
(* sequence can sit inside it.                                             *)
(***************************************************************************)
EXTENDS Integers, Sequences, FiniteSets, Bags, TLC

\* ------------------------------------------------------------------ bounds
MaxNoise == 1          \* stray lines printed before the test output
MaxPartial == 1        \* longest output streamed before an exec times out, in lines

\* --------------------------------------------------------------- constants
DEFAULT_TIMEOUT == 600 \* validate_image(timeout=600)
STOP_TIMEOUT == 10     \* container.stop(timeout=10)
REASON_LIMIT == 500    \* apply_result.output...[:500]
EXEC_TIMEOUT == 300    \* _exec_in_container(timeout=300)

SP == " "
ESC == "ESC[0m"
START_TEST_OUTPUT == <<">>>>> Start", " Test Output">>
END_TEST_OUTPUT == <<">>>>> End", " Test Output">>
SUMMARY_MARKER == <<"short test summary info">>

T1 == <<"t1">>
T2 == <<"t2">>
Tests == {T1, T2}

\* -------------------------------------------------------------- text tools
Min(a, b) == IF a < b THEN a ELSE b

\* `pat in line`: pat is a contiguous part of line
Contains(line, pat) ==
    \E i \in 1..(Len(line) - Len(pat) + 1) :
        SubSeq(line, i, i + Len(pat) - 1) = pat

\* some line of the text contains pat
TextContains(text, pat) == \E i \in 1..Len(text) : Contains(text[i], pat)

\* re.sub(r"\x1b\[[0-9;]*m", "", text), line by line
RECURSIVE StripLine(_)
StripLine(line) ==
    IF line = <<>> THEN <<>>
    ELSE IF Head(line) = ESC THEN StripLine(Tail(line))
    ELSE <<Head(line)>> \o StripLine(Tail(line))

_ansi_escape(text) == [i \in 1..Len(text) |-> StripLine(text[i])]

\* str.strip() on a line
RECURSIVE LStrip(_)
LStrip(line) ==
    IF line # <<>> /\ Head(line) = SP THEN LStrip(Tail(line)) ELSE line

RECURSIVE RStrip(_)
RStrip(line) ==
    IF line # <<>> /\ line[Len(line)] = SP
    THEN RStrip(SubSeq(line, 1, Len(line) - 1)) ELSE line

Strip(line) == RStrip(LStrip(line))

\* the longest prefix of line without white space: \S*
RECURSIVE NonSpaceRun(_)
NonSpaceRun(line) ==
    IF line = <<>> \/ Head(line) = SP THEN <<>>
    ELSE <<Head(line)>> \o NonSpaceRun(Tail(line))

\* status_pat = ^(PASSED|FAILED|ERROR)\s+(\S+) on a stripped line:
\* <<status, test_id>> in a one-element set, or {} for no match
status_pat(stripped) ==
    IF Len(stripped) >= 3
       /\ stripped[1] \in {"PASSED", "FAILED", "ERROR"}
       /\ stripped[2] = SP
    THEN LET rest == LStrip(Tail(stripped))
             id == NonSpaceRun(rest)
         IN IF id = <<>> THEN {} ELSE {<<stripped[1], id>>}
    ELSE {}

\* ---------------------------------------------------------------- parse_log
\* Indices are Python's (0-based); None is {} and an index i is {i}.
LineAt(lines, i) == lines[i + 1]

\* the index at which the first loop breaks: the first END_TEST_OUTPUT line
end_idx_of(lines) ==
    LET hits == {i \in 0..(Len(lines) - 1) : Contains(LineAt(lines, i), END_TEST_OUTPUT)}
    IN IF hits = {} THEN {} ELSE {CHOOSE i \in hits : \A j \in hits : i <= j}

\* start_idx after the first loop: one past the last START_TEST_OUTPUT line
\* seen before the loop breaks
sentinel_start_idx(lines) ==
    LET e == end_idx_of(lines)
        last == IF e = {} THEN Len(lines) - 1 ELSE CHOOSE i \in e : TRUE
        hits == {i \in 0..last : Contains(LineAt(lines, i), START_TEST_OUTPUT)}
    IN IF hits = {} THEN {}
       ELSE {(CHOOSE i \in hits : \A j \in hits : i >= j) + 1}

\* the fallback loop: one past the first "short test summary info" line
fallback_start_idx(lines) ==
    LET hits == {i \in 0..(Len(lines) - 1) : Contains(LineAt(lines, i), SUMMARY_MARKER)}
    IN IF hits = {} THEN {}
       ELSE {(CHOOSE i \in hits : \A j \in hits : i <= j) + 1}


\* mutant of start_idx_of: the summary header is looked for first
start_idx_summary_first(lines) ==
    IF fallback_start_idx(lines) # {} THEN fallback_start_idx(lines)
    ELSE sentinel_start_idx(lines)

\* mutant of start_idx_of: without any marker the whole output is the region
start_idx_whole_output(lines) ==
    IF sentinel_start_idx(lines) # {} THEN sentinel_start_idx(lines)
    ELSE IF fallback_start_idx(lines) # {} THEN fallback_start_idx(lines)
    ELSE {0}

start_idx_of(lines) ==
    IF sentinel_start_idx(lines) # {} THEN sentinel_start_idx(lines)
    ELSE fallback_start_idx(lines)

\* lines[s:e] and lines[s:] of Python
Slice(lines, s, e) == IF s >= e THEN <<>> ELSE SubSeq(lines, s + 1, Min(e, Len(lines)))
SliceFrom(lines, s) == IF s >= Len(lines) THEN <<>> ELSE SubSeq(lines, s + 1, Len(lines))

\* region = lines[start_idx:end_idx] if end_idx else lines[start_idx:]
\* (`if end_idx` is false for None and for 0)
region_of(lines) ==
    LET s == CHOOSE i \in start_idx_of(lines) : TRUE
        e == end_idx_of(lines)
    IN IF e # {} /\ e # {0}
       THEN Slice(lines, s, CHOOSE i \in e : TRUE)
       ELSE SliceFrom(lines, s)

Normalize(status) == IF status = "ERROR" THEN "FAILED" ELSE status

\* the result dict after the lines of region, later lines overwriting earlier
RECURSIVE results_of(_)
results_of(region) ==
    IF region = <<>> THEN <<>>
    ELSE LET before == results_of(SubSeq(region, 1, Len(region) - 1))
             m == status_pat(Strip(region[Len(region)]))
         IN IF m = {} THEN before
            ELSE LET hit == CHOOSE x \in m : TRUE
                     id == hit[2]
                 IN [t \in (DOMAIN before) \cup {id} |->
                        IF t = id THEN Normalize(hit[1]) ELSE before[t]]

parse_log(raw) ==
    LET lines == _ansi_escape(raw)
    IN IF start_idx_of(lines) = {} THEN <<>> ELSE results_of(region_of(lines))

\* --------------------------------------------------------- ValidationResult
\* ValidationResult(passed=..., reason=...) with every other field defaulted
ValidationResult(passed, reason) ==
    [passed |-> passed, reason |-> reason,
     pre_f2p_correct |-> 0, pre_f2p_wrong |-> 0,
     pre_p2p_correct |-> 0, pre_p2p_wrong |-> 0,
     post_f2p_correct |-> 0, post_f2p_wrong |-> 0,
     post_p2p_correct |-> 0, post_p2p_wrong |-> 0,
     pre_raw |-> <<>>, post_raw |-> <<>>, details |-> <<>>]

\* an arbitrary but fixed iteration order of a set (Python's set order)
RECURSIVE SetToSeq(_)
SetToSeq(S) ==
    IF S = {} THEN <<>>
    ELSE LET x == CHOOSE y \in S : TRUE IN <<x>> \o SetToSeq(S \ {x})

RECURSIVE Flatten(_)
Flatten(ss) == IF ss = <<>> THEN <<>> ELSE Head(ss) \o Flatten(Tail(ss))

\* "; ".join(reasons)
RECURSIVE JoinSemi(_)
JoinSemi(reasons) ==
    IF reasons = <<>> THEN <<>>
    ELSE IF Len(reasons) = 1 THEN Head(reasons)
    ELSE Head(reasons) \o <<"; ">> \o JoinSemi(Tail(reasons))

\* f"TIMEOUT after {timeout}s", a text of one line
TimeoutRaw(t) == << <<"TIMEOUT after ", ToString(t), "s">> >>

\* ------------------------------------------------------------ classification
\* results.get(test_id)
Get(results, test_id) ==
    IF test_id \in DOMAIN results THEN {results[test_id]} ELSE {}


\* mutant of PreF2PClass: a test without a status is taken as failing
PreF2PClass_absent_ok(status) ==
    IF status # {"PASSED"} THEN "correct" ELSE "wrong"

\* the branch of the pre-patch F2P loop taken for one test
PreF2PClass(status) ==
    IF status = {} THEN "missing"
    ELSE IF status # {"PASSED"} THEN "correct"
    ELSE "wrong"


\* mutant of MustPassClass: a test without a status is taken as passing
MustPassClass_missing_ok(status) ==
    IF status = {} \/ status = {"PASSED"} THEN "correct" ELSE "wrong"

\* the branch of the pre-patch P2P loop and of both post-patch loops
MustPassClass(status) ==
    IF status = {} THEN "missing"
    ELSE IF status = {"PASSED"} THEN "correct"
    ELSE "wrong"

CountCorrect(class) == IF class = "correct" THEN 1 ELSE 0
CountWrong(class) == IF class = "correct" THEN 0 ELSE 1

\* mutant of Detail: a test without a status leaves no entry in details
Detail_missing_silent(class, missingText, wrongText, test_id) ==
    IF class = "wrong" THEN << <<wrongText>> \o test_id >>
    ELSE <<>>

\* the details.append of one loop iteration: <<>> or a one-element list
Detail(class, missingText, wrongText, test_id) ==
    IF class = "missing" THEN << <<missingText>> \o test_id >>
    ELSE IF class = "wrong" THEN << <<wrongText>> \o test_id >>
    ELSE <<>>

RECURSIVE Sum(_)
Sum(ns) == IF ns = <<>> THEN 0 ELSE Head(ns) + Sum(Tail(ns))

\* one `for test_id in tests` loop: the correct count, the wrong count and
\* the appended details
Loop(tests, results, PreF2P, missingText, wrongText) ==
    LET order == SetToSeq(tests)
        cls == [i \in 1..Len(order) |->
                   IF PreF2P THEN PreF2PClass(Get(results, order[i]))
                   ELSE MustPassClass(Get(results, order[i]))]
    IN [correct |-> Sum([i \in 1..Len(order) |-> CountCorrect(cls[i])]),
        wrong |-> Sum([i \in 1..Len(order) |-> CountWrong(cls[i])]),
        details |-> Flatten([i \in 1..Len(order) |->
                       Detail(cls[i], missingText, wrongText, order[i])])]


\* mutant of step_pass: only the PASS_TO_PASS tests decide a step
step_pass_p2p_only(f2p_wrong, p2p_wrong) == p2p_wrong = 0

\* mutants of step_pass: the P2P count is not read; one zero count is enough
step_pass_f2p_only(f2p_wrong, p2p_wrong) == f2p_wrong = 0
step_pass_either(f2p_wrong, p2p_wrong) == f2p_wrong = 0 \/ p2p_wrong = 0

step_pass(f2p_wrong, p2p_wrong) == f2p_wrong = 0 /\ p2p_wrong = 0

\* the `reasons` list of a failed step
StepReasons(f2p_wrong, p2p_wrong, f2pText, p2pText) ==
    (IF f2p_wrong # 0 THEN << <<ToString(f2p_wrong), f2pText>> >> ELSE <<>>)
    \o (IF p2p_wrong # 0 THEN << <<ToString(p2p_wrong), p2pText>> >> ELSE <<>>)

\* ------------------------------------------------- results validate_image returns
NoF2PResult == ValidationResult(FALSE, <<"no FAIL_TO_PASS tests defined">>)

PreTimeoutResult(t) ==
    [ValidationResult(FALSE, <<"pre-patch eval timed out after ", ToString(t), "s">>)
        EXCEPT !.pre_raw = TimeoutRaw(t)]

\* mutant of PreParseFailResult: the captured output is not kept
PreParseFailResult_no_raw(out) ==
    ValidationResult(FALSE, <<"could not parse pre-patch test output">>)

PreParseFailResult(out) ==
    [ValidationResult(FALSE, <<"could not parse pre-patch test output">>)
        EXCEPT !.pre_raw = out]

Step1FailResult(fc, fw, pcor, pw, out, det) ==
    [ValidationResult(FALSE,
        <<"step 1 (pre-patch) failed: ">>
        \o JoinSemi(StepReasons(fw, pw, " F2P tests did not fail pre-patch",
                                        " P2P tests did not pass pre-patch")))
        EXCEPT !.pre_f2p_correct = fc, !.pre_f2p_wrong = fw,
               !.pre_p2p_correct = pcor, !.pre_p2p_wrong = pw,
               !.pre_raw = out, !.details = det]


\* mutant of WithPre: the pre-patch counts are not carried over
WithPre_no_counts(r, fc, pcor, out, det) ==
    [r EXCEPT !.pre_raw = out, !.details = det]

\* the fields every result of step 2 carries over from step 1
WithPre(r, fc, pcor, out, det) ==
    [r EXCEPT !.pre_f2p_correct = fc, !.pre_p2p_correct = pcor,
              !.pre_raw = out, !.details = det]

NoGoldPatchResult(fc, pcor, out, det) ==
    WithPre(ValidationResult(FALSE, <<"no gold patch available for step 2">>),
            fc, pcor, out, det)

\* output.decode(...)[:500]
Truncate(output) == SubSeq(output, 1, Min(Len(output), REASON_LIMIT))

ApplyFailResult(fc, pcor, out, det, apply_output) ==
    WithPre(ValidationResult(FALSE,
                <<"could not apply gold patch: ">> \o Truncate(apply_output)),
            fc, pcor, out, det)


\* mutant of PostTimeoutResult: the reason of the pre-patch timeout is reused
PostTimeoutResult_wrong_step(t, fc, pcor, out, det) ==
    [WithPre(ValidationResult(FALSE,
                <<"pre-patch eval timed out after ", ToString(t), "s">>),
             fc, pcor, out, det)
        EXCEPT !.post_raw = TimeoutRaw(t)]

PostTimeoutResult(t, fc, pcor, out, det) ==
    [WithPre(ValidationResult(FALSE,
                <<"post-patch eval timed out after ", ToString(t), "s">>),
             fc, pcor, out, det)
        EXCEPT !.post_raw = TimeoutRaw(t)]

PostParseFailResult(fc, pcor, out, det, post_out) ==
    [WithPre(ValidationResult(FALSE, <<"could not parse post-patch test output">>),
             fc, pcor, out, det)
        EXCEPT !.post_raw = post_out]

Step2FailResult(fc, pcor, out, det, qfc, qfw, qpc, qpw, post_out) ==
    [WithPre(ValidationResult(FALSE,
                <<"step 2 (post-patch) failed: ">>
                \o JoinSemi(StepReasons(qfw, qpw, " F2P tests did not pass post-patch",
                                                  " P2P tests did not pass post-patch"))),
             fc, pcor, out, det)
        EXCEPT !.post_f2p_correct = qfc, !.post_f2p_wrong = qfw,
               !.post_p2p_correct = qpc, !.post_p2p_wrong = qpw,
               !.post_raw = post_out]

PassResult(fc, pcor, out, det, qfc, qpc, post_out) ==
    [WithPre(ValidationResult(TRUE,
                <<"all checks passed (both pre-patch and post-patch)">>),
             fc, pcor, out, det)
        EXCEPT !.post_f2p_correct = qfc, !.post_p2p_correct = qpc,
               !.post_raw = post_out]

\* -------------------------------------------------------------------- inputs
\* What the eval script prints: MaxNoise or fewer stray lines that look like
\* a test result, then the report of the test runner (at most one line per
\* test, in one of five framings).
Reports == {"absent", "PASSED", "FAILED", "ERROR"}

ReportLine(test_id, report) ==
    IF report = "absent" THEN <<>>
    ELSE IF report = "ERROR"
    THEN << <<SP, ESC, "ERROR", SP>> \o test_id \o <<ESC, SP, "- boom">> >>
    ELSE << <<report, SP>> \o test_id >>

Body(reports) == ReportLine(T1, reports[T1]) \o ReportLine(T2, reports[T2])

NoiseLine == <<"FAILED", SP>> \o T2

Framings == {"sentinels", "colour", "unterminated", "summary", "bare"}

Frame(framing, body) ==
    IF framing = "sentinels" THEN <<START_TEST_OUTPUT>> \o body \o <<END_TEST_OUTPUT>>
    ELSE IF framing = "colour"
    THEN << <<"+ : '", ">>>>> Start", ESC, " Test Output", "'">> >> \o body
         \o <<END_TEST_OUTPUT, NoiseLine>>
    ELSE IF framing = "unterminated" THEN <<START_TEST_OUTPUT>> \o body
    ELSE IF framing = "summary"
    THEN << <<"=== ", "short test summary info", " ===">> >> \o body
    ELSE body

Outputs ==
    { [i \in 1..n |-> NoiseLine] \o Frame(fr, Body(r)) :
        n \in 0..MaxNoise, fr \in Framings, r \in [Tests -> Reports] }

\* what a timed-out exec has streamed so far
PartialOutputs ==
    { SubSeq(o, 1, Min(n, Len(o))) : o \in Outputs, n \in 0..MaxPartial }

NoPatch == <<>>
Patch == <<"diff --git a/f b/f">>

\* the InstanceSpec fields validate_image reads, with the timeout of the call
Inputs ==
    { [fail_to_pass |-> {T1}, pass_to_pass |-> {T2}, patch |-> Patch,
       timeout |-> DEFAULT_TIMEOUT],
      [fail_to_pass |-> {T1, T2}, pass_to_pass |-> {}, patch |-> Patch,
       timeout |-> EXEC_TIMEOUT],
      [fail_to_pass |-> {T1, T2}, pass_to_pass |-> {T2}, patch |-> Patch,
       timeout |-> DEFAULT_TIMEOUT],
      [fail_to_pass |-> {T1}, pass_to_pass |-> {T2}, patch |-> NoPatch,
       timeout |-> EXEC_TIMEOUT],
      [fail_to_pass |-> {}, pass_to_pass |-> {T2}, patch |-> Patch,
       timeout |-> DEFAULT_TIMEOUT] }

\* --------------------------------------------------------------------- state
VARIABLES
    spec,             \* the InstanceSpec validate_image is called with
    timeout,          \* its timeout argument
    pc,               \* the statement validate_image is at
    container,        \* TRUE once `container` is not None
    calls,            \* the container-engine calls issued so far, in order
    pre_output, pre_timeout, pre_results,
    pre_f2p_correct, pre_f2p_wrong, pre_p2p_correct, pre_p2p_wrong,
    step1_pass,
    details,
    apply_result,     \* the last exec_run result of the patch chain
    apply_codes,      \* the exit codes the patch attempts returned, in order
    post_output, post_timeout, post_results,
    pending,          \* what the try block ended with: a return value or an exception
    cleanup_raised,   \* the cleanup calls that raised
    final             \* what validate_image ended with, once pc = "done"

locals == <<pre_output, pre_timeout, pre_results, pre_f2p_correct, pre_f2p_wrong,
            pre_p2p_correct, pre_p2p_wrong, step1_pass, details>>
postlocals == <<post_output, post_timeout, post_results>>
vvars == <<spec, timeout, pc, container, calls, locals, apply_result, apply_codes,
           postlocals, pending, cleanup_raised, final>>

\* the state of one run of the image builder (src/swe_docker/builder.py)
VARIABLES
    specs,            \* the list of InstanceSpec build_instance_images is called with
    force_rebuild,    \* its force_rebuild argument
    max_workers,      \* its max_workers argument
    verbose_logs,     \* its verbose_logs argument
    run,              \* 1 in the first run over the descriptors, 2 in a second one
    first,            \* what the first run returned, while the second one runs
    images0,          \* the image keys the container engine held when the run began
    images,           \* the image keys the container engine holds
    stage,            \* the statement the calling thread is at
    base_images,      \* build_base_images: the base keys still to go through
    base_building,    \* the base key whose build call is in progress: {} or {key}
    env_configs,      \* build_env_images: the keys of env_configs, in insertion order
    tasks,            \* the futures of the pool that is open, in submission order
    env_failed,       \* build_env_images: `failed`
    inst_specs,       \* build_instance_images: `specs` after the filter (indices)
    successful,       \* build_instance_images: `successful` (indices into specs)
    failed,           \* build_instance_images: `failed` (indices into specs)
    build_calls,      \* the build calls issued so far: a bag of [tier, key, by]
    build_ends,       \* the build calls that ended: a bag of [tier, key, by, ok]
    written,          \* the log files the builds have written under output/swe_docker
    outcome,          \* how the run ended: "running", "returned" or "raised"
    error             \* what was raised: "none", "base_build", "lookup" or "fetch"

bvars == <<specs, force_rebuild, max_workers, verbose_logs, run, first, images0, images, stage, base_images, base_building,
           env_configs, tasks, env_failed, inst_specs, successful, failed,
           build_calls, build_ends, written, outcome, error>>

\* the state of one run of a command of the command line (src/swe_docker/cli.py)
VARIABLES
    command,          \* the command that runs: "build", "validate" or "none"
    dataset,          \* the entries load_dataset answers, in order
    limit,            \* build: the --limit option
    instance_ids,     \* build: the ids of --instance-ids, {} when it is not given
    validate,         \* build: the --validate option
    instance_id,      \* validate: the --instance-id option
    cpc,              \* the statement the command is at
    handed,           \* build: the specs build_from_dataset hands to the builder
    cli_successful,   \* build: the list `successful` the builder returned
    engine,           \* the image keys the container engine holds
    position,         \* build: the index in `successful` the validation loop is at
    val_pass,         \* build: `val_pass`
    val_fail,         \* build: the instance ids of `val_fail`
    deleted,          \* build: the image keys delete_image was called with, in order
    val_logs,         \* build: the validation logs written under failed_logs/
    validations,      \* the calls of validate_image so far, with how each ended
    exit_code         \* the exit code of the command, -1 while it runs

cvars == <<command, dataset, limit, instance_ids, validate, instance_id, cpc, handed,
           cli_successful, engine, position, val_pass, val_fail, deleted, val_logs,
           validations, exit_code>>

\* the argument and the value of one call of a pure function: parse_log of
\* src/swe_docker/validator.py, compare_results of src/r2e_docker/validator.py
VARIABLES
    log_text,         \* parse_log: its argument raw, a list of lines
    log_results,      \* parse_log: whether it was called, and the dict it returned
    r2e_actual,       \* compare_results: its argument actual
    r2e_expected,     \* compare_results: its argument expected
    r2e_result        \* compare_results: whether it was called, and its result

fvars == <<log_text, log_results, r2e_actual, r2e_expected, r2e_result>>

\* the state of one call of _exec_in_container (src/swe_docker/validator.py)
VARIABLES
    epc,              \* the statement the calling thread is at
    wpc,              \* the statement the worker thread (run) is at
    exec_id,          \* the nonlocal exec_id: {} for None
    exception,        \* the nonlocal exception: {} for None
    exec_result,      \* the nonlocal exec_result: the chunks read so far
    engine_calls,     \* the engine calls made so far, with how each ended
    ret               \* how the call ended: a returned pair or a raise

evars == <<epc, wpc, exec_id, exception, exec_result, engine_calls, ret>>

NotCalled == [called |-> FALSE, value |-> <<>>]

\* neither pure function is called
FunctionsIdle ==
    /\ log_text = <<>> /\ log_results = NotCalled
    /\ r2e_actual = <<>> /\ r2e_expected = <<>> /\ r2e_result = NotCalled

NoReturn == [kind |-> "none", output |-> <<>>, timed_out |-> FALSE]

\* the state of _exec_in_container's locals at line 158, before the thread
LocalsAtEntry ==
    /\ wpc = "unstarted"
    /\ exec_id = {} /\ exception = {} /\ exec_result = <<>>
    /\ engine_calls = <<>> /\ ret = NoReturn

\* _exec_in_container is not called
ExecIdle == epc = "idle" /\ LocalsAtEntry

\* `limit is None`
NoLimit == [given |-> FALSE, n |-> 0]

\* no command of the command line runs
CliIdle ==
    /\ command = "none" /\ dataset = <<>>
    /\ limit = NoLimit /\ instance_ids = {} /\ validate = FALSE
    /\ instance_id = "" /\ cpc = "idle"
    /\ handed = <<>> /\ cli_successful = <<>>
    /\ engine = {} /\ position = 0
    /\ val_pass = 0 /\ val_fail = <<>>
    /\ deleted = <<>> /\ val_logs = {}
    /\ validations = <<>>
    /\ exit_code = -1

vars == <<vvars, bvars, cvars, fvars, evars>>

\* the (successful, failed) of a run, as sets of indices into specs
NoResult == [successful |-> {}, failed |-> {}]

\* no builder run is going on
BuilderIdle ==
    /\ specs = <<>> /\ force_rebuild = FALSE /\ max_workers = 1
    /\ images0 = {} /\ images = {} /\ stage = "idle"
    /\ base_images = <<>> /\ base_building = {}
    /\ env_configs = <<>> /\ tasks = <<>>
    /\ env_failed = {} /\ inst_specs = <<>>
    /\ successful = <<>> /\ failed = <<>>
    /\ build_calls = EmptyBag /\ build_ends = EmptyBag
    /\ verbose_logs = FALSE /\ written = {}
    /\ run = 1 /\ first = NoResult
    /\ outcome = "running" /\ error = "none"

f2p_tests == spec.fail_to_pass
p2p_tests == spec.pass_to_pass
gold_patch == spec.patch

Nothing == [kind |-> "none", exc |-> "", result |-> ValidationResult(FALSE, <<>>)]
Return(r) == [kind |-> "return", exc |-> "", result |-> r]
Raise(e) == [kind |-> "raise", exc |-> e, result |-> ValidationResult(FALSE, <<>>)]

\* one entry of the call log; timeout is {} when the call is given none
Call(op, cmd, t) == [op |-> op, cmd |-> cmd, timeout |-> t]

EVAL_CMD == "bash /root/eval.sh"
ApplyCmd(k) ==
    IF k = 1 THEN "git apply -v"
    ELSE IF k = 2 THEN "git apply -v --reject"
    ELSE "patch --batch --fuzz=5 -p1 -i"

Init ==
    /\ \E input \in Inputs :
         /\ spec = [fail_to_pass |-> input.fail_to_pass,
                    pass_to_pass |-> input.pass_to_pass, patch |-> input.patch]
         /\ timeout = input.timeout
    /\ pc = "call"
    /\ container = FALSE
    /\ calls = <<>>
    /\ pre_output = <<>> /\ pre_timeout = FALSE /\ pre_results = <<>>
    /\ pre_f2p_correct = 0 /\ pre_f2p_wrong = 0
    /\ pre_p2p_correct = 0 /\ pre_p2p_wrong = 0
    /\ step1_pass = FALSE
    /\ details = <<>>
    /\ apply_result = [exit_code |-> 0, output |-> <<>>]
    /\ apply_codes = <<>>
    /\ post_output = <<>> /\ post_timeout = FALSE /\ post_results = <<>>
    /\ pending = Nothing
    /\ cleanup_raised = {}
    /\ final = Nothing
    /\ BuilderIdle
    /\ CliIdle
    /\ FunctionsIdle /\ ExecIdle

\* ------------------------------------------------------------------- actions
\* lines 221-234: the early return, before any container exists
Enter ==
    /\ pc = "call"
    /\ IF f2p_tests = {}
       THEN /\ pc' = "done"
            /\ final' = Return(NoF2PResult)
       ELSE /\ pc' = "create"
            /\ UNCHANGED final
    /\ UNCHANGED <<fvars, evars, cvars, bvars, spec, timeout, container, calls, locals, apply_result, apply_codes, postlocals,
                   pending, cleanup_raised>>

\* leave the try block with an exception
Throw(e) ==
    /\ pending' = Raise(e)
    /\ pc' = "finally"

\* client.containers.create(...)
Create ==
    /\ pc = "create"
    /\ calls' = Append(calls, Call("containers.create", "tail -f /dev/null", {}))
    /\ \/ /\ container' = TRUE
          /\ pc' = "start"
          /\ UNCHANGED pending
       \/ /\ Throw("containers.create")
          /\ UNCHANGED container
    /\ UNCHANGED <<fvars, evars, cvars, bvars, spec, timeout, locals, apply_result, apply_codes, postlocals, cleanup_raised, final>>

\* container.start()
Start ==
    /\ pc = "start"
    /\ calls' = Append(calls, Call("start", "", {}))
    /\ \/ pc' = "write_eval" /\ UNCHANGED pending
       \/ Throw("start")
    /\ UNCHANGED <<fvars, evars, cvars, bvars, spec, timeout, container, locals, apply_result, apply_codes, postlocals,
                   cleanup_raised, final>>

\* container.exec_run(cmd) whose result is not read: no timeout is passed;
\* the call returns (with any exit code), raises, or never returns
ExecRun(cmd, next) ==
    /\ calls' = Append(calls, Call("exec_run", cmd, {}))
    /\ \/ /\ pc' = next
          /\ UNCHANGED pending
       \/ Throw(cmd)
       \/ /\ pc' = "blocked"
          /\ UNCHANGED pending
    /\ UNCHANGED <<apply_result, apply_codes>>

\* _write_script_to_container: cat <<EOF > path, then chmod +x path;
\* neither exit code is read
WriteScript(here, chmod, cat_cmd, chmod_cmd, next) ==
    \/ pc = here /\ ExecRun(cat_cmd, chmod)
    \/ pc = chmod /\ ExecRun(chmod_cmd, next)

\* line 248
WriteEval ==
    /\ WriteScript("write_eval", "write_eval_chmod",
                   "cat > /root/eval.sh", "chmod +x /root/eval.sh", "pre_eval")
    /\ UNCHANGED <<fvars, evars, cvars, bvars, spec, timeout, container, locals, postlocals, cleanup_raised, final>>

\* line 329
WritePatch ==
    /\ WriteScript("write_patch", "write_patch_chmod",
                   "cat > /tmp/gold_patch.diff", "chmod +x /tmp/gold_patch.diff", "apply1")
    /\ UNCHANGED <<fvars, evars, cvars, bvars, spec, timeout, container, locals, postlocals, cleanup_raised, final>>

\* _exec_in_container(container, cmd, timeout): the exec is created and its
\* stream read by a worker, the caller waits for at most `timeout`.  The ways
\* the call can end: it returns (output, FALSE); it returns (the output so
\* far, TRUE) after asking for the inner process to be killed when the exec id
\* is known; it raises.  `calls` are the engine calls it has made.
_exec_in_container(cmd, t) ==
    LET exec == Call("exec", cmd, {t})
        kill == <<Call("exec_inspect", cmd, {}), Call("exec_run", "kill -TERM", {})>>
    IN {[raised |-> FALSE, output |-> out, timed_out |-> FALSE, calls |-> <<exec>>] :
            out \in Outputs}
       \cup {[raised |-> FALSE, output |-> out, timed_out |-> TRUE,
              calls |-> <<exec>> \o kill] : out \in PartialOutputs}
       \cup {[raised |-> FALSE, output |-> <<>>, timed_out |-> TRUE, calls |-> <<exec>>],
             [raised |-> TRUE, output |-> <<>>, timed_out |-> FALSE, calls |-> <<exec>>]}

\* return a ValidationResult from inside the try block
ReturnResult(r) ==
    /\ pending' = Return(r)
    /\ pc' = "finally"


\* mutant of pre_branch: an empty gold patch does not end the validation
pre_branch_no_gold_check(timed_out, res, step1, patch) ==
    IF timed_out THEN "timeout"
    ELSE IF DOMAIN res = {} THEN "noparse"
    ELSE IF ~step1 THEN "step1_failed"
    ELSE "step2"

\* mutant of pre_branch: a failed step 1 does not return
pre_branch_no_stop(timed_out, res, step1, patch) ==
    IF timed_out THEN "timeout"
    ELSE IF DOMAIN res = {} THEN "noparse"
    ELSE IF patch = NoPatch THEN "no_gold"
    ELSE "step2"

\* lines 255-326: which way validate_image goes after the pre-patch eval
pre_branch(timed_out, res, step1, patch) ==
    IF timed_out THEN "timeout"
    ELSE IF DOMAIN res = {} THEN "noparse"
    ELSE IF ~step1 THEN "step1_failed"
    ELSE IF patch = NoPatch THEN "no_gold"
    ELSE "step2"

\* lines 251-326: the pre-patch eval, its classification and the returns of step 1
PreEval ==
    LET Returned(out, timed_out) ==
          LET res == IF timed_out THEN <<>> ELSE parse_log(out)
              f == Loop(f2p_tests, res, TRUE,
                        "PRE F2P missing: ", "PRE F2P unexpectedly PASSED: ")
              p == Loop(p2p_tests, res, FALSE,
                        "PRE P2P missing: ", "PRE P2P unexpectedly FAILED: ")
              det == f.details \o p.details
              step1 == step_pass(f.wrong, p.wrong)
              branch == pre_branch(timed_out, res, step1, gold_patch)
          IN /\ pre_output' = out
             /\ pre_timeout' = timed_out
             /\ pre_results' = res
             /\ IF branch \in {"timeout", "noparse"}
                THEN UNCHANGED <<pre_f2p_correct, pre_f2p_wrong, pre_p2p_correct,
                                 pre_p2p_wrong, step1_pass, details>>
                ELSE /\ pre_f2p_correct' = f.correct
                     /\ pre_f2p_wrong' = f.wrong
                     /\ pre_p2p_correct' = p.correct
                     /\ pre_p2p_wrong' = p.wrong
                     /\ details' = det
                     /\ step1_pass' = step1
             /\ IF branch = "timeout" THEN ReturnResult(PreTimeoutResult(timeout))
                ELSE IF branch = "noparse" THEN ReturnResult(PreParseFailResult(out))
                ELSE IF branch = "step1_failed"
                THEN ReturnResult(Step1FailResult(f.correct, f.wrong, p.correct,
                                                  p.wrong, out, det))
                ELSE IF branch = "no_gold"
                THEN ReturnResult(NoGoldPatchResult(f.correct, p.correct, out, det))
                ELSE pc' = "write_patch" /\ UNCHANGED pending
    IN /\ pc = "pre_eval"
       /\ \E r \in _exec_in_container(EVAL_CMD, timeout) :
            /\ calls' = calls \o r.calls
            /\ IF r.raised
               THEN Throw(EVAL_CMD) /\ UNCHANGED locals
               ELSE Returned(r.output, r.timed_out)
       /\ UNCHANGED <<fvars, evars, cvars, bvars, spec, timeout, container, apply_result, apply_codes, postlocals,
                      cleanup_raised, final>>

\* lines 330-351: the chain of patch attempts
ApplyOutput(k, code) == <<ApplyCmd(k), ": exit ", ToString(code)>>

\* mutant of AfterApply: the exit code of the third attempt is not read
AfterApply_last_unchecked(k, code) ==
    IF code = 0 THEN "post_eval"
    ELSE IF k = 1 THEN "apply2"
    ELSE IF k = 2 THEN "apply3"
    ELSE "post_eval"

\* where the chain goes after attempt k ended with exit code `code`
AfterApply(k, code) ==
    IF code = 0 THEN "post_eval"
    ELSE IF k = 1 THEN "apply2"
    ELSE IF k = 2 THEN "apply3"
    ELSE "finally"

Apply(k) ==
    LET Returned(code) ==
          /\ apply_result' = [exit_code |-> code, output |-> ApplyOutput(k, code)]
          /\ apply_codes' = Append(apply_codes, code)
          /\ pc' = AfterApply(k, code)
          /\ IF AfterApply(k, code) = "finally"
             THEN pending' = Return(ApplyFailResult(pre_f2p_correct, pre_p2p_correct,
                                        pre_output, details, ApplyOutput(k, code)))
             ELSE UNCHANGED pending
    IN /\ pc = (IF k = 1 THEN "apply1" ELSE IF k = 2 THEN "apply2" ELSE "apply3")
       /\ calls' = Append(calls, Call("exec_run", ApplyCmd(k), {}))
       /\ \/ \E code \in {0, 1} : Returned(code)
          \/ /\ Throw(ApplyCmd(k))
             /\ UNCHANGED <<apply_result, apply_codes>>
          \/ /\ pc' = "blocked"
             /\ UNCHANGED <<pending, apply_result, apply_codes>>
       /\ UNCHANGED <<fvars, evars, cvars, bvars, spec, timeout, container, locals, postlocals, cleanup_raised, final>>

ApplyPatch == \E k \in 1..3 : Apply(k)

\* lines 354-440: the post-patch eval, its classification and the final returns
PostEval ==
    LET Returned(out, timed_out) ==
          /\ post_output' = out
          /\ post_timeout' = timed_out
          /\ pc' = "finally"
          /\ IF timed_out
             THEN /\ pending' = Return(PostTimeoutResult(timeout, pre_f2p_correct,
                                        pre_p2p_correct, pre_output, details))
                  /\ UNCHANGED <<post_results, details>>
             ELSE LET res == parse_log(out)
                      f == Loop(f2p_tests, res, FALSE,
                                "POST F2P missing: ", "POST F2P still FAILED: ")
                      p == Loop(p2p_tests, res, FALSE,
                                "POST P2P missing: ", "POST P2P unexpectedly FAILED: ")
                      det == details \o f.details \o p.details
                  IN /\ post_results' = res
                     /\ IF DOMAIN res = {}
                        THEN /\ pending' = Return(PostParseFailResult(pre_f2p_correct,
                                        pre_p2p_correct, pre_output, details, out))
                             /\ UNCHANGED details
                        ELSE /\ details' = det
                             /\ pending' = Return(
                                  IF ~step_pass(f.wrong, p.wrong)
                                  THEN Step2FailResult(pre_f2p_correct, pre_p2p_correct,
                                          pre_output, det, f.correct, f.wrong,
                                          p.correct, p.wrong, out)
                                  ELSE PassResult(pre_f2p_correct, pre_p2p_correct,
                                          pre_output, det, f.correct, p.correct, out))
    IN /\ pc = "post_eval"
       /\ \E r \in _exec_in_container(EVAL_CMD, timeout) :
            /\ calls' = calls \o r.calls
            /\ IF r.raised
               THEN Throw(EVAL_CMD) /\ UNCHANGED <<postlocals, details>>
               ELSE Returned(r.output, r.timed_out)
       /\ UNCHANGED <<fvars, evars, cvars, bvars, spec, timeout, container, pre_output, pre_timeout, pre_results,
                      pre_f2p_correct, pre_f2p_wrong, pre_p2p_correct, pre_p2p_wrong,
                      step1_pass, apply_result, apply_codes, cleanup_raised, final>>


\* mutant of after_stop: container.stop outside any try, its error ends the cleanup
after_stop_unguarded(raised) == IF raised THEN "done" ELSE "remove"

\* lines 442-451: the finally block
\* the statement after container.stop(timeout=10), whether or not it raised
after_stop(raised) == "remove"

\* what validate_image ends with, given what the try block ended with and
\* the cleanup calls that raised
finally_outcome(p, raised) == p

FinallyNone ==
    /\ pc = "finally"
    /\ ~container
    /\ pc' = "done"
    /\ final' = finally_outcome(pending, cleanup_raised)
    /\ UNCHANGED <<fvars, evars, cvars, bvars, spec, timeout, container, calls, locals, apply_result, apply_codes, postlocals,
                   pending, cleanup_raised>>

Stop ==
    /\ pc = "finally"
    /\ container
    /\ calls' = Append(calls, Call("stop", "", {STOP_TIMEOUT}))
    /\ \E raised \in BOOLEAN :
         /\ cleanup_raised' = (IF raised THEN {"stop"} ELSE {})
         /\ pc' = after_stop(raised)
         /\ IF after_stop(raised) = "done"
            THEN final' = finally_outcome(pending, cleanup_raised')
            ELSE UNCHANGED final
    /\ UNCHANGED <<fvars, evars, cvars, bvars, spec, timeout, container, locals, apply_result, apply_codes, postlocals, pending>>

Remove ==
    /\ pc = "remove"
    /\ calls' = Append(calls, Call("remove", "force", {}))
    /\ \E raised \in BOOLEAN :
         cleanup_raised' = (IF raised THEN cleanup_raised \cup {"remove"}
                            ELSE cleanup_raised)
    /\ pc' = "done"
    /\ final' = finally_outcome(pending, cleanup_raised')
    /\ UNCHANGED <<fvars, evars, cvars, bvars, spec, timeout, container, locals, apply_result, apply_codes, postlocals, pending>>

Next ==
    \/ Enter
    \/ Create
    \/ Start
    \/ WriteEval
    \/ PreEval
    \/ WritePatch
    \/ ApplyPatch
    \/ PostEval
    \/ FinallyNone
    \/ Stop
    \/ Remove

Spec == Init /\ [][Next]_vars

\* ==================================================================== builder
\* Model of the three-tier image builder (src/swe_docker/builder.py): the
\* image keys of an InstanceSpec and one run of build_instance_images, with
\* the calling thread, the two worker pools and the container engine's images.
\* A string the code formats (a key, a command) is a sequence of its pieces.

\* ------------------------------------------------------------- InstanceSpec
\* the fields of an InstanceSpec the builder reads; manifest is what the fetch
\* of the requirements file answers: {} when no candidate path answers 200
Desc(id, short_name, base_commit, python, packages, arch) ==
    [instance_id |-> id, registry |-> "reg/", short_name |-> short_name,
     base_commit |-> base_commit, arch |-> arch, docker_specs |-> <<>>,
     python |-> python, packages |-> packages, pip_packages |-> {},
     no_use_env |-> FALSE, manifest |-> {<<"numpy==1.0">>}]

\* str(x) of a list of strings
RECURSIVE ReprItems(_)
ReprItems(items) ==
    IF items = <<>> THEN <<>>
    ELSE <<"'">> \o Head(items) \o <<"'">>
         \o (IF Len(items) > 1 THEN <<", ">> ELSE <<>>) \o ReprItems(Tail(items))

StrList(items) == <<"[">> \o ReprItems(items) \o <<"]">>

\* " ".join(words)
RECURSIVE JoinSpace(_)
JoinSpace(words) ==
    IF words = <<>> THEN <<>>
    ELSE <<Head(words)>> \o (IF Len(words) > 1 THEN <<" ">> ELSE <<>>)
         \o JoinSpace(Tail(words))

\* get_requirements / get_environment_yml raise ValueError: the manifest is
\* fetched for these two kinds of packages only
fetch_fails(d) ==
    d.packages \in {"requirements.txt", "environment.yml"} /\ d.manifest = {}

reqs_of(d) == CHOOSE text \in d.manifest : TRUE

HEREDOC_OPEN == "cat <<'EOF_59812759871' > "
HEREDOC_CLOSE == "\nEOF_59812759871"

\* InstanceSpec._env_script_list_key, for a descriptor whose fetch answers
_env_script_list_key(d) ==
    LET create == <<"conda create -n testbed python=", d.python>>
        head == << <<"source /opt/miniconda3/bin/activate">> >>
        body ==
          IF d.packages = "requirements.txt"
          THEN << create \o <<" -y">>,
                  <<HEREDOC_OPEN, "$HOME/requirements.txt", "\n">> \o reqs_of(d)
                      \o <<HEREDOC_CLOSE>>,
                  <<"conda activate testbed && python -m pip install -r ",
                    "$HOME/requirements.txt">>,
                  <<"rm ", "$HOME/requirements.txt">> >>
          ELSE IF d.packages = "environment.yml"
          THEN << <<HEREDOC_OPEN, "environment.yml", "\n">> \o reqs_of(d)
                      \o <<HEREDOC_CLOSE>> >>
               \o (IF d.no_use_env
                   THEN << <<"conda create -c conda-forge -n testbed python=",
                             d.python, " -y">>,
                           <<"conda env update -f ", "environment.yml">> >>
                   ELSE << <<"conda env create --file ", "environment.yml">>,
                           <<"conda activate testbed && conda install python=",
                             d.python, " -y">> >>)
               \o << <<"rm ", "environment.yml">> >>
          ELSE << create \o <<" ", d.packages, " -y">> >>
        tail == << <<"conda activate testbed">> >>
        pip == IF d.pip_packages = {} THEN <<>>
               ELSE << <<"python -m pip install ">>
                       \o JoinSpace(CHOOSE p \in d.pip_packages : TRUE) >>
    IN head \o body \o tail \o pip

\* hashlib.sha256(text.encode()).hexdigest()[:22]: a digest stands for the
\* text it was taken of (two texts with the same 88-bit prefix are left out)
sha256_22(text) == <<"sha256[:22] of ">> \o text

base_image_key(d) == <<"base.py.", d.arch, ":latest">>


\* mutant of env_image_key: the commit of the instance enters the hash
env_image_key_per_commit(d) ==
    <<d.registry, d.short_name, "_base:">>
    \o sha256_22(StrList(_env_script_list_key(d)) \o d.docker_specs
                 \o <<d.arch, d.base_commit>>)

\* docker_specs is the text str(docker_specs), <<>> for an empty dict
env_image_key(d) ==
    LET hash_input == StrList(_env_script_list_key(d))
                      \o (IF d.docker_specs # <<>> THEN d.docker_specs ELSE <<>>)
                      \o <<d.arch>>
    IN <<d.registry, d.short_name, "_base:">> \o sha256_22(hash_input)

instance_image_key(d) == <<d.registry, d.short_name, "_final:", d.base_commit>>

\* ------------------------------------------------------------------- inputs
MaxWorkers == 2        \* largest max_workers a run is given

DA == Desc("a", "r1", "c1", "3.9", "numpy", "x86_64")
DB == Desc("b", "r1", "c2", "3.9", "numpy", "x86_64")
DC == Desc("c", "r1", "c3", "3.6", "numpy", "x86_64")
DD == Desc("d", "r2", "c1", "3.9", "numpy", "x86_64")
DE == [Desc("e", "r1", "c4", "3.9", "requirements.txt", "arm64")
          EXCEPT !.docker_specs = <<"{'ubuntu_version': '20.04'}">>,
                 !.pip_packages = {<<"pytest", "tox">>}]
DF == [Desc("f", "r1", "c5", "3.9", "requirements.txt", "x86_64") EXCEPT !.manifest = {}]
DG == [DA EXCEPT !.instance_id = "g"]
DH == [DA EXCEPT !.instance_id = "h", !.registry = ""]
DY == [Desc("y", "r2", "c6", "3.9", "environment.yml", "x86_64") EXCEPT !.no_use_env = TRUE]

\* the lists of descriptors a run is given: two that share an env key and one
\* that does not; the same env script under another repository and another
\* registry; two architectures; two descriptors of one commit; a descriptor
\* whose manifest cannot be fetched; a single descriptor; none
SpecLists ==
    { <<DA, DB, DC>>, <<DA, DD, DH>>, <<DA, DE>>, <<DA, DG>>, <<DC, DF>>, <<DY>>, <<>> }

Range(seq) == {seq[i] : i \in DOMAIN seq}

Fetchable(list) == {list[i] : i \in {j \in DOMAIN list : ~fetch_fails(list[j])}}

BaseKeys(list) == {base_image_key(d) : d \in Range(list)}
EnvKeys(list) == {env_image_key(d) : d \in Fetchable(list)}
InstanceKeys(list) == {instance_image_key(d) : d \in Range(list)}

\* the images the engine holds when the run starts
InitialImages(list) ==
    { {},
      BaseKeys(list),
      BaseKeys(list) \cup EnvKeys(list),
      BaseKeys(list) \cup EnvKeys(list) \cup InstanceKeys(list) }
    \cup (IF list = <<>> \/ fetch_fails(list[1]) THEN {}
          ELSE {{base_image_key(list[1]), env_image_key(list[1]),
                 instance_image_key(list[1])}})

\* ------------------------------------------------------------------ helpers
\* _build_image, line 201: `nocache: bool = False`; none of its callers
\* (lines 263, 273, 326, 339, 405, 418) passes the argument
NOCACHE_DEFAULT == FALSE

\* one client.api.build call (lines 215-223) as the engine sees it
BuildCall(tier, key, by) ==
    [tier |-> tier, key |-> key, by |-> by, nocache |-> NOCACHE_DEFAULT]

BuildEnd(tier, key, by, ok) == [tier |-> tier, key |-> key, by |-> by, ok |-> ok]

\* ------------------------------------------------------------------ log files
\* the ways a build call ends: it returns, the engine reports a build error
\* (BuildError, raised for a streamed errorDetail too), or another exception
BuildResults == {"ok", "BuildError", "Exception"}

\* text.replace(":", "__") on the pieces of a name: the pieces that hold a colon
colons(piece) ==
    CASE piece = "_base:" -> "_base__"
      [] piece = "_final:" -> "_final__"
      [] piece = ":latest" -> "__latest"
      [] OTHER -> piece

\* text.replace("/", "_") on the pieces of a name: the piece that holds a slash
slashes(piece) == IF piece = "reg/" THEN "reg_" ELSE piece

\* _save_failure_log, line 53: name.replace(":", "__").replace("/", "_")
safe(name) == [i \in DOMAIN name |-> slashes(colons(name[i]))]

\* _save_failure_log, line 54: the file the failure log is written to
failure_log(category, name) ==
    <<"failed_logs/", category, "_">> \o safe(name) \o <<".log">>

\* the build directory of a build with verbose_logs, lines 260, 323, 402
build_dir(tier, key) ==
    IF tier = "base" THEN <<"build_logs/base/">> \o [i \in DOMAIN key |-> colons(key[i])]
    ELSE IF tier = "env" THEN <<"build_logs/env/">> \o [i \in DOMAIN key |-> colons(key[i])]
    ELSE <<"build_logs/instances/">> \o safe(key)

\* the log files a build writes when it ends.  With verbose_logs the build log
\* goes to build.log in the build directory, also for a BuildError, and
\* another exception writes nothing; without it a failure of either kind is
\* saved by _save_failure_log
log_of(tier, key, name, res, verbose) ==
    IF verbose
    THEN IF res = "Exception" THEN {} ELSE {build_dir(tier, key) \o <<"/build.log">>}
    ELSE IF res = "ok" THEN {} ELSE {failure_log(tier, name)}

\* build_base_images, lines 259-282
base_log(key, res, verbose) == log_of("base", key, key, res, verbose)

\* _build_one_env, lines 322-349
env_log(key, res, verbose) == log_of("env", key, key, res, verbose)

\* _build_one_instance, lines 401-428: the failure log is named after the
\* instance id, the build directory after the image key
instance_log(d, res, verbose) ==
    log_of("instance", instance_image_key(d), <<d.instance_id>>, res, verbose)

\* the files under output/swe_docker a build may write while it runs: with
\* verbose_logs the build context and build.log in its build directory
\* (_build_image, lines 211-213), else the failure log; the temporary
\* directory of a build without verbose_logs is its own
build_paths(tier, key, name, verbose) ==
    IF verbose
    THEN {build_dir(tier, key) \o <<"/", f>> :
             f \in {"Dockerfile", "build.log",
                    IF tier = "instance" THEN "setup_repo.sh" ELSE "setup_env.sh"}}
    ELSE {failure_log(tier, name)}

Task(key, by) == [key |-> key, by |-> by, status |-> "pending", collected |-> FALSE]

Finished(task) == task.status \in {"ok", "failed", "raised"}

Building == {k \in DOMAIN tasks : tasks[k].status = "building"}

\* list(dict.fromkeys(keys)): the keys in the order they are first seen
RECURSIVE Unique(_, _)
Unique(keys, seen) ==
    IF keys = <<>> THEN seen
    ELSE Unique(Tail(keys), IF Head(keys) \in Range(seen) THEN seen
                            ELSE Append(seen, Head(keys)))

\* an exception leaves build_instance_images
Raised(e) ==
    /\ stage' = "done"
    /\ outcome' = "raised"
    /\ error' = e

\* the run of the validator is not part of a builder run
ValidatorIdle ==
    /\ spec = [fail_to_pass |-> {}, pass_to_pass |-> {}, patch |-> NoPatch]
    /\ timeout = DEFAULT_TIMEOUT
    /\ pc = "idle"
    /\ container = FALSE
    /\ calls = <<>>
    /\ pre_output = <<>> /\ pre_timeout = FALSE /\ pre_results = <<>>
    /\ pre_f2p_correct = 0 /\ pre_f2p_wrong = 0
    /\ pre_p2p_correct = 0 /\ pre_p2p_wrong = 0
    /\ step1_pass = FALSE
    /\ details = <<>>
    /\ apply_result = [exit_code |-> 0, output |-> <<>>]
    /\ apply_codes = <<>>
    /\ post_output = <<>> /\ post_timeout = FALSE /\ post_results = <<>>
    /\ pending = Nothing
    /\ cleanup_raised = {}
    /\ final = Nothing

\* build_instance_images(client, specs, force_rebuild, max_workers) is called
InitB ==
    /\ ValidatorIdle
    /\ CliIdle
    /\ FunctionsIdle /\ ExecIdle
    /\ specs \in SpecLists
    /\ force_rebuild \in BOOLEAN
    /\ max_workers \in 1..MaxWorkers
    /\ verbose_logs \in BOOLEAN
    /\ run = 1 /\ first = NoResult
    /\ images0 \in InitialImages(specs)
    /\ images = images0
    /\ stage = "call"
    /\ base_images = <<>> /\ base_building = {}
    /\ env_configs = <<>> /\ tasks = <<>>
    /\ env_failed = {} /\ inst_specs = <<>>
    /\ successful = <<>> /\ failed = <<>>
    /\ build_calls = EmptyBag /\ build_ends = EmptyBag
    /\ written = {}
    /\ outcome = "running" /\ error = "none"

\* ------------------------------------------------------------- base images
\* images.get(key) answers with the image, raises ImageNotFound, or fails
LookupAnswers(key) ==
    {IF key \in images THEN "present" ELSE "absent", "error"}

\* lines 243-246: the base keys of the descriptors, each once
CollectBase ==
    /\ stage = "call"
    /\ base_images' = Unique([i \in DOMAIN specs |-> base_image_key(specs[i])], <<>>)
    /\ stage' = "base"
    /\ UNCHANGED <<fvars, evars, cvars, vvars, specs, force_rebuild, max_workers, verbose_logs, run, first,
                   images0, images, base_building, env_configs, tasks, env_failed,
                   inst_specs, successful, failed, build_calls, build_ends, written,
                   outcome, error>>

\* mutant of base_step: a base image that is present is rebuilt whatever
\* force_rebuild says
base_step_rebuild_present(answer, force) ==
    IF answer = "error" THEN "raise" ELSE "build"

\* lines 249-258: what the loop does with a base key, given the lookup
base_step(answer, force) ==
    IF answer = "error" THEN "raise"
    ELSE IF answer = "present" /\ ~force THEN "skip"
    ELSE "build"

\* lines 248-273: one base key: the lookup, the removal of a present image
\* that is to be rebuilt, and the start of the build call
BaseLookup ==
    /\ stage = "base"
    /\ base_images # <<>>
    /\ LET key == Head(base_images)
       IN \E answer \in LookupAnswers(key) :
            LET step == base_step(answer, force_rebuild)
            IN /\ IF step = "raise"
                  THEN /\ Raised("lookup")
                       /\ UNCHANGED <<base_images, base_building, images, build_calls>>
                  ELSE IF step = "skip"
                  THEN /\ base_images' = Tail(base_images)
                       /\ UNCHANGED <<stage, outcome, error, base_building, images,
                                      build_calls>>
                  ELSE /\ images' = images \ {key}
                       /\ base_building' = {key}
                       /\ build_calls' = build_calls (+) SetToBag({BuildCall("base", key, 0)})
                       /\ stage' = "base_build"
                       /\ UNCHANGED <<base_images, outcome, error>>
    /\ UNCHANGED <<fvars, evars, cvars, vvars, specs, force_rebuild, max_workers, verbose_logs, run, first,
                   images0, env_configs, tasks, env_failed, inst_specs, successful,
                   failed, build_ends, written>>


\* mutant of after_base_build: the error of a base build is logged and the loop goes on
after_base_build_keep_going(ok) == "next"

\* lines 262-282: a failed base build is logged and raised again
after_base_build(ok) == IF ok THEN "next" ELSE "raise"

\* _build_image for a base key returns or raises
BaseBuildEnd ==
    /\ stage = "base_build"
    /\ \E res \in BuildResults :
         LET key == Head(base_images)
             ok == res = "ok"
         IN /\ images' = (IF ok THEN images \cup {key} ELSE images)
            /\ build_ends' = build_ends (+) SetToBag({BuildEnd("base", key, 0, ok)})
            /\ written' = written \cup base_log(key, res, verbose_logs)
            /\ base_building' = {}
            /\ IF after_base_build(ok) = "raise"
               THEN Raised("base_build") /\ UNCHANGED base_images
               ELSE /\ base_images' = Tail(base_images)
                    /\ stage' = "base"
                    /\ UNCHANGED <<outcome, error>>
    /\ UNCHANGED <<fvars, evars, cvars, vvars, specs, force_rebuild, max_workers, verbose_logs, run, first,
                   images0, env_configs, tasks, env_failed, inst_specs, successful,
                   failed, build_calls>>

\* -------------------------------------------------------------- env images

\* mutant of base_loop_done: the loop over the base keys stops one key early
base_loop_done_early(keys) == Len(keys) <= 1

\* line 248: the loop over base_images is over
base_loop_done(keys) == keys = <<>>


\* mutant of already_configured: every descriptor adds its key
already_configured_never(key, configs) == FALSE

\* line 301: `if key in env_configs`
already_configured(key, configs) == key \in Range(configs)

\* lines 299-310 for the descriptors list[1..n], without a raise: the keys of
\* env_configs and the images left after the removals
RECURSIVE dedupe(_, _, _)
dedupe(list, n, force) ==
    IF n = 0 THEN [configs |-> <<>>, images |-> images]
    ELSE LET before == dedupe(list, n - 1, force)
             key == env_image_key(list[n])
         IN IF already_configured(key, before.configs) THEN before
            ELSE IF key \in before.images /\ ~force THEN before
            ELSE [configs |-> Append(before.configs, key),
                  images |-> before.images \ {key}]

\* the iteration n of the loop raises: the manifest of the descriptor cannot
\* be fetched when its key is computed, or the lookup of the key fails
dedupe_can_raise(list, n, force) ==
    /\ \A i \in 1..(n - 1) : ~fetch_fails(list[i])
    /\ IF fetch_fails(list[n]) THEN TRUE
       ELSE ~already_configured(env_image_key(list[n]),
                                dedupe(list, n - 1, force).configs)

\* lines 295-352: build_base_images has returned; env_configs is filled and,
\* unless it is empty, one future per key is submitted to the pool
EnvDedupe ==
    /\ stage = "base"
    /\ base_loop_done(base_images)
    /\ \/ /\ \A i \in DOMAIN specs : ~fetch_fails(specs[i])
          /\ LET r == dedupe(specs, Len(specs), force_rebuild)
             IN /\ env_configs' = r.configs
                /\ images' = r.images
                /\ tasks' = [k \in DOMAIN r.configs |-> Task(r.configs[k], 0)]
                /\ stage' = (IF r.configs = <<>> THEN "filter" ELSE "env_pool")
          /\ UNCHANGED <<outcome, error>>
       \/ \E n \in DOMAIN specs :
            /\ dedupe_can_raise(specs, n, force_rebuild)
            /\ images' = dedupe(specs, n - 1, force_rebuild).images
            /\ Raised(IF fetch_fails(specs[n]) THEN "fetch" ELSE "lookup")
            /\ UNCHANGED <<env_configs, tasks>>
    /\ UNCHANGED <<fvars, evars, cvars, vvars, specs, force_rebuild, max_workers, verbose_logs, run, first,
                   images0, base_images, base_building, env_failed, inst_specs,
                   successful, failed, build_calls, build_ends, written>>

\* ------------------------------------------------------------------ the pool

\* mutant of can_start: a waiting future starts whatever the number of builds
\* in progress
can_start_unbounded(k, queue, workers) ==
    /\ queue[k].status = "pending"
    /\ \A j \in 1..(k - 1) : queue[j].status # "pending"

\* mutant of can_start: a worker starts a task only while fewer than
\* max_workers - 1 builds are in progress
can_start_one_less(k, queue, workers) ==
    /\ queue[k].status = "pending"
    /\ \A j \in 1..(k - 1) : queue[j].status # "pending"
    /\ Cardinality({j \in DOMAIN queue : queue[j].status = "building"}) < workers - 1

\* ThreadPoolExecutor(max_workers): a free worker takes the oldest future
\* that is waiting
can_start(k, queue, workers) ==
    /\ queue[k].status = "pending"
    /\ \A j \in 1..(k - 1) : queue[j].status # "pending"
    /\ Cardinality({j \in DOMAIN queue : queue[j].status = "building"}) < workers

\* _build_one_env, lines 319-339: the build call of an env key starts
EnvBuildStart(k) ==
    /\ stage = "env_pool"
    /\ can_start(k, tasks, max_workers)
    /\ tasks' = [tasks EXCEPT ![k].status = "building"]
    /\ build_calls' = build_calls (+) SetToBag({BuildCall("env", tasks[k].key, 0)})
    /\ UNCHANGED <<fvars, evars, cvars, vvars, specs, force_rebuild, max_workers, verbose_logs, run, first,
                   images0, images, stage, base_images, base_building, env_configs,
                   env_failed, inst_specs, successful, failed, build_ends, outcome,
                   written, error>>

\* _build_one_env, lines 326-349: the build call returns or raises; the error
\* is caught and returned as a text
EnvBuildEnd(k) ==
    /\ stage = "env_pool"
    /\ tasks[k].status = "building"
    /\ \E res \in BuildResults :
         LET ok == res = "ok"
         IN
         /\ tasks' = [tasks EXCEPT ![k].status = IF ok THEN "ok" ELSE "failed"]
         /\ images' = (IF ok THEN images \cup {tasks[k].key} ELSE images)
         /\ written' = written \cup env_log(tasks[k].key, res, verbose_logs)
         /\ build_ends' = build_ends
                          (+) SetToBag({BuildEnd("env", tasks[k].key, 0, ok)})
    /\ UNCHANGED <<fvars, evars, cvars, vvars, specs, force_rebuild, max_workers, verbose_logs, run, first,
                   images0, stage, base_images, base_building, env_configs, env_failed,
                   inst_specs, successful, failed, build_calls, outcome, error>>

\* lines 353-358: as_completed hands over a finished future
EnvCollect(k) ==
    /\ stage = "env_pool"
    /\ Finished(tasks[k]) /\ ~tasks[k].collected
    /\ tasks' = [tasks EXCEPT ![k].collected = TRUE]
    /\ env_failed' = (IF tasks[k].status = "failed" THEN env_failed \cup {tasks[k].key}
                      ELSE env_failed)
    /\ UNCHANGED <<fvars, evars, cvars, vvars, specs, force_rebuild, max_workers, verbose_logs, run, first,
                   images0, images, stage, base_images, base_building, env_configs,
                   inst_specs, successful, failed, build_calls, build_ends, outcome,
                   written, error>>

\* lines 353-365: every future is consumed, the pool is closed and
\* build_env_images returns `failed`
EnvReturn ==
    /\ stage = "env_pool"
    /\ \A k \in DOMAIN tasks : tasks[k].collected
    /\ tasks' = <<>>
    /\ stage' = "filter"
    /\ UNCHANGED <<fvars, evars, cvars, vvars, specs, force_rebuild, max_workers, verbose_logs, run, first,
                   images0, images, base_images, base_building, env_configs,
                   env_failed, inst_specs, successful, failed, build_calls, build_ends,
                   outcome, written, error>>

\* --------------------------------------------------------- instance images

\* mutant of instances_to_build: the descriptors of a failed env key are kept
instances_to_build_unfiltered(list, env_bad) == [i \in DOMAIN list |-> i]

\* lines 378-380: the descriptors (as indices into specs) whose env key did
\* not fail
instances_to_build(list, env_bad) ==
    LET kept(i) == env_image_key(list[i]) \notin env_bad
    IN IF env_bad # {} THEN SelectSeq([i \in DOMAIN list |-> i], kept)
       ELSE [i \in DOMAIN list |-> i]

\* lines 377-431: build_env_images has returned; the descriptors of failed env
\* keys are dropped and one future per remaining descriptor is submitted
Filter ==
    /\ stage = "filter"
    /\ LET todo == instances_to_build(specs, env_failed)
       IN /\ inst_specs' = todo
          /\ tasks' = [k \in DOMAIN todo |->
                          Task(instance_image_key(specs[todo[k]]), todo[k])]
    /\ stage' = "inst_pool"
    /\ UNCHANGED <<fvars, evars, cvars, vvars, specs, force_rebuild, max_workers, verbose_logs, run, first,
                   images0, images, base_images, base_building, env_configs,
                   env_failed, successful, failed, build_calls, build_ends, outcome,
                   written, error>>

\* mutant of instance_step: the worker builds without looking the image up
instance_step_always_build(answer, force) == "build"

\* lines 388-395: what _build_one_instance does first, given the lookup that
\* is made when force_rebuild is off
instance_step(answer, force) ==
    IF force THEN "build"
    ELSE IF answer = "present" THEN "skip"
    ELSE IF answer = "error" THEN "raise"
    ELSE "build"

\* _build_one_instance, lines 387-418: a worker takes a descriptor: its image
\* is found, or the lookup fails, or the build call of its key starts
InstanceStart(k) ==
    /\ stage \in {"inst_pool", "inst_drain"}
    /\ can_start(k, tasks, max_workers)
    /\ \E answer \in LookupAnswers(tasks[k].key) :
         LET step == instance_step(answer, force_rebuild)
         IN /\ tasks' = [tasks EXCEPT ![k].status =
                            IF step = "skip" THEN "ok"
                            ELSE IF step = "raise" THEN "raised"
                            ELSE "building"]
            /\ build_calls' = (IF step = "build"
                               THEN build_calls (+) SetToBag({BuildCall("instance",
                                                        tasks[k].key, tasks[k].by)})
                               ELSE build_calls)
    /\ UNCHANGED <<fvars, evars, cvars, vvars, specs, force_rebuild, max_workers, verbose_logs, run, first,
                   images0, images, stage, base_images, base_building, env_configs,
                   env_failed, inst_specs, successful, failed, build_ends, outcome,
                   written, error>>

\* _build_one_instance, lines 404-428: the build call returns or raises; the
\* error is caught and returned with the descriptor
InstanceBuildEnd(k) ==
    /\ stage \in {"inst_pool", "inst_drain"}
    /\ tasks[k].status = "building"
    /\ \E res \in BuildResults :
         LET ok == res = "ok"
         IN
         /\ tasks' = [tasks EXCEPT ![k].status = IF ok THEN "ok" ELSE "failed"]
         /\ images' = (IF ok THEN images \cup {tasks[k].key} ELSE images)
         /\ written' = written \cup instance_log(specs[tasks[k].by], res, verbose_logs)
         /\ build_ends' = build_ends
                          (+) SetToBag({BuildEnd("instance", tasks[k].key, tasks[k].by, ok)})
    /\ UNCHANGED <<fvars, evars, cvars, vvars, specs, force_rebuild, max_workers, verbose_logs, run, first,
                   images0, stage, base_images, base_building, env_configs, env_failed,
                   inst_specs, successful, failed, build_calls, outcome, error>>

\* lines 432-438: as_completed hands over a finished future; future.result()
\* raises what the worker raised, and leaving the `with` block then waits for
\* the workers
InstanceCollect(k) ==
    /\ stage = "inst_pool"
    /\ Finished(tasks[k]) /\ ~tasks[k].collected
    /\ tasks' = [tasks EXCEPT ![k].collected = TRUE]
    /\ successful' = (IF tasks[k].status = "ok" THEN Append(successful, tasks[k].by)
                      ELSE successful)
    /\ failed' = (IF tasks[k].status = "failed" THEN Append(failed, tasks[k].by)
                  ELSE failed)
    /\ stage' = (IF tasks[k].status = "raised" THEN "inst_drain" ELSE "inst_pool")
    /\ UNCHANGED <<fvars, evars, cvars, vvars, specs, force_rebuild, max_workers, verbose_logs, run, first,
                   images0, images, base_images, base_building, env_configs,
                   env_failed, inst_specs, build_calls, build_ends, outcome, written,
                   error>>

\* the pool is closed with every future run, and the error of the worker
\* leaves build_instance_images
InstanceDrained ==
    /\ stage = "inst_drain"
    /\ \A k \in DOMAIN tasks : Finished(tasks[k])
    /\ Raised("lookup")
    /\ UNCHANGED <<fvars, evars, cvars, vvars, specs, force_rebuild, max_workers, verbose_logs, run, first,
                   images0, images, base_images, base_building, env_configs, tasks,
                   env_failed, inst_specs, successful, failed, build_calls, build_ends,
                   written>>

\* lines 440-445: every future is consumed; (successful, failed) is returned
InstanceReturn ==
    /\ stage = "inst_pool"
    /\ \A k \in DOMAIN tasks : tasks[k].collected
    /\ stage' = "done"
    /\ outcome' = "returned"
    /\ UNCHANGED <<fvars, evars, cvars, vvars, specs, force_rebuild, max_workers, verbose_logs, run, first,
                   images0, images, base_images, base_building, env_configs, tasks,
                   env_failed, inst_specs, successful, failed, build_calls, build_ends,
                   written, error>>

EnvWorker == \E k \in DOMAIN tasks : EnvBuildStart(k) \/ EnvBuildEnd(k)
EnvCollector == \E k \in DOMAIN tasks : EnvCollect(k)
InstanceWorker == \E k \in DOMAIN tasks : InstanceStart(k) \/ InstanceBuildEnd(k)
InstanceCollector == \E k \in DOMAIN tasks : InstanceCollect(k)

NextB ==
    \/ CollectBase
    \/ BaseLookup
    \/ BaseBuildEnd
    \/ EnvDedupe
    \/ EnvWorker
    \/ EnvCollector
    \/ EnvReturn
    \/ Filter
    \/ InstanceWorker
    \/ InstanceCollector
    \/ InstanceDrained
    \/ InstanceReturn

SpecB == InitB /\ [][NextB]_vars

\* every step that can be taken is taken in the end: the engine answers each
\* call, the workers and the calling thread run
SpecBFair == SpecB /\ WF_vars(NextB)

\* ------------------------------------------------------------- a second run
\* build_instance_images has returned and is called again with the same
\* arguments: the engine keeps its images and the disk its files
Rerun ==
    /\ stage = "done" /\ outcome = "returned"
    /\ run = 1
    /\ run' = 2
    /\ first' = [successful |-> Range(successful), failed |-> Range(failed)]
    /\ images0' = images
    /\ stage' = "call"
    /\ base_images' = <<>> /\ base_building' = {}
    /\ env_configs' = <<>> /\ tasks' = <<>>
    /\ env_failed' = {} /\ inst_specs' = <<>>
    /\ successful' = <<>> /\ failed' = <<>>
    /\ build_calls' = EmptyBag /\ build_ends' = EmptyBag
    /\ outcome' = "running"
    /\ UNCHANGED <<fvars, evars, cvars, vvars, specs, force_rebuild, max_workers, verbose_logs, images,
                   written, error>>

NextR == NextB \/ Rerun

SpecR == InitB /\ [][NextR]_vars

\* ============================================================== command line
\* Model of the two commands of src/swe_docker/cli.py: `build`, with
\* build_from_dataset of builder.py and the validation loop behind --validate,
\* and `validate`.  The builder run and validate_image are taken by their
\* outcomes: what build_instance_images returns or that it raises, and a
\* ValidationResult that passed, one that did not, or an exception.

\* an entry of the dataset: the descriptor it gives, whether its repo and
\* version are in MAP_REPO_VERSION_TO_SPECS, and whether InstanceSpec(entry)
\* returns
Entry(d, supported, constructs) ==
    [d |-> d, supported |-> supported, constructs |-> constructs]

Good(d) == Entry(d, TRUE, TRUE)

MaxLimit == 2          \* largest --limit a run is given

Datasets ==
    { <<Good(DA), Good(DG), Good(DC)>>,
      <<Good(DA), Entry(DB, FALSE, TRUE), Good(DC)>>,
      <<Entry(DB, TRUE, FALSE), Good(DA), Good(DC)>>,
      <<>> }

Limits == {NoLimit} \cup {[given |-> TRUE, n |-> n] : n \in 0..MaxLimit}

\* builder.py line 488: `limit is not None and len(specs) >= limit`
limit_reached(lim, n) == lim.given /\ n >= lim.n

\* build_from_dataset, lines 472-489: the loop over the entries, with `specs`
\* so far
RECURSIVE load_specs(_, _, _, _)
load_specs(ds, specs_so_far, lim, ids) ==
    IF ds = <<>> THEN specs_so_far
    ELSE LET entry == Head(ds)
             skipped == \/ ids # {} /\ entry.d.instance_id \notin ids
                        \/ ~entry.supported
                        \/ ~entry.constructs
             appended == Append(specs_so_far, entry.d)
         IN IF skipped THEN load_specs(Tail(ds), specs_so_far, lim, ids)
            ELSE IF limit_reached(lim, Len(appended)) THEN appended
            ELSE load_specs(Tail(ds), appended, lim, ids)

\* the lists without repetition over a set of indices
RECURSIVE Orders(_)
Orders(S) ==
    IF S = {} THEN {<<>>}
    ELSE UNION {{<<i>> \o rest : rest \in Orders(S \ {i})} : i \in S}

\* what build_instance_images can return as `successful` for the specs it is
\* handed: some of them, in the order their workers completed
SuccessfulLists(list) ==
    UNION {{[k \in DOMAIN order |-> list[order[k]]] : order \in Orders(S)} :
              S \in SUBSET DOMAIN list}

\* how a call of validate_image ends: without FAIL_TO_PASS tests it returns a
\* failure before it touches the engine; creating the container of an image
\* the engine does not hold raises
validate_outcomes(present) ==
    IF present THEN {"passed", "failed", "raised"} ELSE {"failed", "raised"}

Validation(d, ended) == [instance_id |-> d.instance_id, outcome |-> ended]

\* cli.py lines 94-95: the file the validation log is written to
validation_log(d) ==
    <<"failed_logs/", "validation_", slashes(d.instance_id), ".log">>

InitC ==
    /\ ValidatorIdle /\ BuilderIdle
    /\ FunctionsIdle /\ ExecIdle
    /\ command \in {"build", "validate"}
    /\ dataset \in Datasets
    /\ IF command = "build"
       THEN /\ limit \in Limits
            /\ instance_ids \in {{}, {"a", "c"}}
            /\ validate \in BOOLEAN
            /\ instance_id = ""
            /\ engine = {}
       ELSE /\ limit = NoLimit /\ instance_ids = {} /\ validate = FALSE
            /\ instance_id \in {"a", "b", "z"}
            /\ engine \in {{}, {instance_image_key(DA), instance_image_key(DB)}}
    /\ cpc = "call"
    /\ handed = <<>> /\ cli_successful = <<>>
    /\ position = 0
    /\ val_pass = 0 /\ val_fail = <<>>
    /\ deleted = <<>> /\ val_logs = {}
    /\ validations = <<>>
    /\ exit_code = -1

\* the command ends with this exit code
Exit(code) ==
    /\ cpc' = "done"
    /\ exit_code' = code

\* build, lines 39-48 and builder.py lines 470-491: the dataset is loaded and
\* the specs are collected
BuildLoad ==
    /\ command = "build" /\ cpc = "call"
    /\ handed' = load_specs(dataset, <<>>, limit, instance_ids)
    /\ cpc' = "building"
    /\ UNCHANGED <<fvars, evars, vvars, bvars, command, dataset, limit, instance_ids, validate,
                   instance_id, cli_successful, engine, position, val_pass,
                   val_fail, deleted, val_logs, validations, exit_code>>

\* builder.py line 493 and cli.py lines 50-66: build_instance_images returns,
\* with the image of every successful spec present, or raises; the loop of
\* validations is entered `if validate and successful`
BuildRun ==
    /\ command = "build" /\ cpc = "building"
    /\ \/ /\ Exit(1)
          /\ UNCHANGED <<cli_successful, engine, position>>
       \/ \E list \in SuccessfulLists(handed) :
            /\ cli_successful' = list
            /\ engine' = engine \cup {instance_image_key(list[k]) : k \in DOMAIN list}
            /\ IF validate /\ list # <<>>
               THEN cpc' = "validating" /\ position' = 1 /\ UNCHANGED exit_code
               ELSE Exit(0) /\ UNCHANGED position
    /\ UNCHANGED <<fvars, evars, vvars, bvars, command, dataset, limit, instance_ids, validate,
                   instance_id, handed, val_pass, val_fail, deleted, val_logs,
                   validations>>

\* cli.py lines 86-99: what the loop does with the way validate_image ended
after_validation(ended) ==
    IF ended = "passed" THEN "count"
    ELSE IF ended = "failed" THEN "delete"
    ELSE "except"

\* cli.py lines 85-100 and validator.py lines 454-460: one iteration of the
\* validation loop; delete_image may fail to remove the image and says so
\* only by its return value, which the loop drops
ValidateNext ==
    /\ command = "build" /\ cpc = "validating"
    /\ position <= Len(cli_successful)
    /\ LET d == cli_successful[position]
           key == instance_image_key(d)
       IN \E ended \in validate_outcomes(key \in engine), removed \in BOOLEAN :
            LET step == after_validation(ended)
            IN /\ validations' = Append(validations, Validation(d, ended))
               /\ val_pass' = (IF step = "count" THEN val_pass + 1 ELSE val_pass)
               /\ val_fail' = (IF step = "count" THEN val_fail
                               ELSE Append(val_fail, d.instance_id))
               /\ deleted' = (IF step = "delete" THEN Append(deleted, key) ELSE deleted)
               /\ engine' = (IF step = "delete" /\ removed THEN engine \ {key}
                             ELSE engine)
               /\ val_logs' = (IF step = "delete" THEN val_logs \cup {validation_log(d)}
                               ELSE val_logs)
    /\ position' = position + 1
    /\ UNCHANGED <<fvars, evars, vvars, bvars, command, dataset, limit, instance_ids, validate,
                   instance_id, cpc, handed, cli_successful, exit_code>>

\* cli.py lines 102-115: the loop is over and the command returns
BuildDone ==
    /\ command = "build" /\ cpc = "validating"
    /\ position > Len(cli_successful)
    /\ Exit(0)
    /\ UNCHANGED <<fvars, evars, vvars, bvars, command, dataset, limit, instance_ids, validate,
                   instance_id, handed, cli_successful, engine, position, val_pass,
                   val_fail, deleted, val_logs, validations>>

\* validate_cmd, lines 134-138: the first entry with the instance id, as a set
found_entries(ds, iid) ==
    LET at == {i \in DOMAIN ds : ds[i].d.instance_id = iid}
    IN IF at = {} THEN {}
       ELSE {ds[CHOOSE i \in at : \A j \in at : i <= j]}

\* mutant of exit_of: a failed validation exits like a passed one
exit_of_always_zero(ended) == 0

\* validate_cmd, lines 148-152: the exit code after validate_image; an
\* exception that nothing catches ends the interpreter with exit code 1
exit_of(ended) == IF ended = "passed" THEN 0 ELSE 1

\* validate_cmd, lines 133-144: the entry is looked up; the command exits with
\* code 2 when there is none, and InstanceSpec(entry) raises for an entry
\* whose repo or version is not in the map
ValidateLookup ==
    /\ command = "validate" /\ cpc = "call"
    /\ LET found == found_entries(dataset, instance_id)
       IN IF found = {} THEN Exit(2)
          ELSE IF \E e \in found : ~e.supported \/ ~e.constructs THEN Exit(1)
          ELSE cpc' = "validate_image" /\ UNCHANGED exit_code
    /\ UNCHANGED <<fvars, evars, vvars, bvars, command, dataset, limit, instance_ids, validate,
                   instance_id, handed, cli_successful, engine, position, val_pass,
                   val_fail, deleted, val_logs, validations>>

\* validate_cmd, lines 146-152: validate_image is called and the command
\* exits by its result
ValidateRun ==
    /\ command = "validate" /\ cpc = "validate_image"
    /\ \E e \in found_entries(dataset, instance_id) :
         \E ended \in validate_outcomes(instance_image_key(e.d) \in engine) :
            /\ validations' = Append(validations, Validation(e.d, ended))
            /\ Exit(exit_of(ended))
    /\ UNCHANGED <<fvars, evars, vvars, bvars, command, dataset, limit, instance_ids, validate,
                   instance_id, handed, cli_successful, engine, position, val_pass,
                   val_fail, deleted, val_logs>>

NextC ==
    \/ BuildLoad
    \/ BuildRun
    \/ ValidateNext
    \/ BuildDone
    \/ ValidateLookup
    \/ ValidateRun

SpecC == InitC /\ [][NextC]_vars


\* ============================================================ pure functions
\* parse_log (src/swe_docker/validator.py) applied to one output, and
\* compare_results (src/r2e_docker/validator.py) applied to one pair of dicts.

\* ------------------------------------------------------------------ parse_log
MaxLines == 4          \* most lines of an output handed to parse_log

\* the lines an eval output is made of: the two sentinels (the first as the
\* shell traces it, in colour), the header of pytest's summary, two results
LogLines ==
    { <<"+ : '", ">>>>> Start", ESC, " Test Output", "'">>,
      END_TEST_OUTPUT,
      <<"=== ", "short test summary info", " ===">>,
      <<"PASSED", SP>> \o T1,
      <<"FAILED", SP>> \o T2 }

LogTexts == UNION {[1..n -> LogLines] : n \in 0..MaxLines}

InitParse ==
    /\ ValidatorIdle /\ BuilderIdle /\ CliIdle /\ ExecIdle
    /\ log_text \in LogTexts
    /\ log_results = NotCalled
    /\ r2e_actual = <<>> /\ r2e_expected = <<>> /\ r2e_result = NotCalled

\* results = parse_log(raw)
ParseLog ==
    /\ ~log_results.called
    /\ log_results' = [called |-> TRUE, value |-> parse_log(log_text)]
    /\ UNCHANGED <<vvars, bvars, cvars, evars, log_text, r2e_actual, r2e_expected,
                   r2e_result>>

NextParse == ParseLog

SpecParse == InitParse /\ [][NextParse]_vars

\* ------------------------------------------------------------ compare_results
\* src/r2e_docker/validator.py: the test names and statuses of the two dicts
R2E_NAMES == <<"test_a", "test_b">>
R2E_STATUSES == {"PASSED", "FAILED", "ERROR"}

\* the dicts {test_name: status} over these names
R2EDicts == UNION {[S -> R2E_STATUSES] : S \in SUBSET Range(R2E_NAMES)}

\* sorted(names): the names of the set in increasing order
sorted(names) ==
    LET listed(n) == n \in names
    IN SelectSeq(R2E_NAMES, listed)

\* mutant of r2e_reasons: a run without bug-revealing test is accepted
r2e_reasons_f2p_optional(missing, extra, f2p, p2f) ==
    (IF missing # <<>> THEN << <<ToString(Len(missing)), " missing tests">> >> ELSE <<>>)
    \o (IF extra # <<>> THEN << <<ToString(Len(extra)), " extra tests">> >> ELSE <<>>)
    \o (IF p2f # <<>> THEN << <<ToString(Len(p2f)), " P2F tests (should be 0)">> >>
        ELSE <<>>)

\* lines 188-198: the reasons for which the comparison fails
r2e_reasons(missing, extra, f2p, p2f) ==
    (IF missing # <<>> THEN << <<ToString(Len(missing)), " missing tests">> >> ELSE <<>>)
    \o (IF extra # <<>> THEN << <<ToString(Len(extra)), " extra tests">> >> ELSE <<>>)
    \o (IF f2p = <<>> THEN << <<"no F2P tests (need >=1 bug-revealing test)">> >>
        ELSE <<>>)
    \o (IF p2f # <<>> THEN << <<ToString(Len(p2f)), " P2F tests (should be 0)">> >>
        ELSE <<>>)

\* lines 152-210
compare_results(act, exp) ==
    LET expected_names == DOMAIN exp
        actual_names == DOMAIN act
        missing == sorted(expected_names \ actual_names)
        extra == sorted(actual_names \ expected_names)
        common == expected_names \cap actual_names
        f2p == sorted({n \in common : exp[n] = "PASSED" /\ act[n] # "PASSED"})
        p2p == sorted({n \in common : exp[n] = "PASSED" /\ act[n] = "PASSED"})
        f2f == sorted({n \in common : exp[n] # "PASSED" /\ act[n] # "PASSED"})
        p2f == sorted({n \in common : ~(exp[n] = "PASSED" /\ act[n] # "PASSED")
                                      /\ ~(exp[n] = "PASSED" /\ act[n] = "PASSED")
                                      /\ ~(exp[n] # "PASSED" /\ act[n] # "PASSED")})
        reasons == r2e_reasons(missing, extra, f2p, p2f)
        passed == reasons = <<>>
    IN [passed |-> passed,
        reason |-> IF passed THEN <<"all checks passed">> ELSE JoinSemi(reasons),
        f2p_tests |-> f2p, p2p_tests |-> p2p, f2f_tests |-> f2f, p2f_tests |-> p2f,
        missing_tests |-> missing, extra_tests |-> extra]

InitCompare ==
    /\ ValidatorIdle /\ BuilderIdle /\ CliIdle /\ ExecIdle
    /\ log_text = <<>> /\ log_results = NotCalled
    /\ r2e_actual \in R2EDicts
    /\ r2e_expected \in R2EDicts
    /\ r2e_result = NotCalled

\* result = compare_results(actual, expected)
CompareResults ==
    /\ ~r2e_result.called
    /\ r2e_result' = [called |-> TRUE,
                      value |-> compare_results(r2e_actual, r2e_expected)]
    /\ UNCHANGED <<vvars, bvars, cvars, evars, log_text, log_results, r2e_actual,
                   r2e_expected>>

NextCompare == CompareResults

SpecCompare == InitCompare /\ [][NextCompare]_vars

\* ========================================================= _exec_in_container
\* Model of one call of _exec_in_container (src/swe_docker/validator.py, lines
\* 143-186): the worker thread `run` creates the exec, starts it and appends
\* the chunks of its stream to exec_result; the caller joins the thread with a
\* timeout and then reads what the worker has stored so far.  The two threads
\* take their steps in any order; the wait of join ends when the worker is
\* over or when the timeout has passed, which can be at any moment.
MaxChunks == 2         \* most chunks the stream of an exec delivers

BAD_BYTES == "\\xff"
REPLACEMENT == "U+FFFD"
\* the chunks of a stream: text, or bytes that are not UTF-8
Chunks == {"out", BAD_BYTES}

\* bytes.decode("utf-8", errors="replace"), chunk by chunk
decode(bytes) ==
    [i \in DOMAIN bytes |-> IF bytes[i] = BAD_BYTES THEN REPLACEMENT ELSE bytes[i]]

\* one call of the engine API and whether it answered (ok) or raised
EngineCall(op, ok) == [op |-> op, ok |-> ok]

KILL_CMD == "exec_run kill -TERM"

InitExec ==
    /\ ValidatorIdle /\ BuilderIdle /\ CliIdle /\ FunctionsIdle
    /\ epc = "thread_start"
    /\ LocalsAtEntry

\* lines 170-171: thread = threading.Thread(target=run); thread.start()
ThreadStart ==
    /\ epc = "thread_start"
    /\ epc' = "join"
    /\ wpc' = "exec_create"
    /\ UNCHANGED <<vvars, bvars, cvars, fvars, exec_id, exception, exec_result,
                   engine_calls, ret>>

\* lines 163 and 167-168: exec_create answers or raises; an exception is
\* stored in `exception` and the thread goes on to its end
WorkerCreate ==
    /\ wpc = "exec_create"
    /\ \E ok \in BOOLEAN :
         /\ engine_calls' = Append(engine_calls, EngineCall("exec_create", ok))
         /\ IF ok THEN wpc' = "store_id" /\ UNCHANGED exception
            ELSE wpc' = "exiting" /\ exception' = {"exec_create"}
    /\ UNCHANGED <<vvars, bvars, cvars, fvars, epc, exec_id, exec_result, ret>>

\* line 163: the assignment exec_id = ...["Id"]
WorkerStoreId ==
    /\ wpc = "store_id"
    /\ exec_id' = {"id"}
    /\ wpc' = "exec_start"
    /\ UNCHANGED <<vvars, bvars, cvars, fvars, epc, exception, exec_result,
                   engine_calls, ret>>

\* line 164: exec_start(exec_id, stream=True) answers or raises
WorkerStart ==
    /\ wpc = "exec_start"
    /\ \E ok \in BOOLEAN :
         /\ engine_calls' = Append(engine_calls, EngineCall("exec_start", ok))
         /\ IF ok THEN wpc' = "stream" /\ UNCHANGED exception
            ELSE wpc' = "exiting" /\ exception' = {"exec_start"}
    /\ UNCHANGED <<vvars, bvars, cvars, fvars, epc, exec_id, exec_result, ret>>

\* lines 165-168: the stream delivers a chunk, ends, or raises
WorkerStream ==
    /\ wpc = "stream"
    /\ \/ /\ Len(exec_result) < MaxChunks
          /\ \E chunk \in Chunks : exec_result' = Append(exec_result, chunk)
          /\ UNCHANGED <<wpc, exception>>
       \/ /\ wpc' = "exiting"
          /\ UNCHANGED <<exec_result, exception>>
       \/ /\ wpc' = "exiting"
          /\ exception' = {"stream"}
          /\ UNCHANGED exec_result
    /\ UNCHANGED <<vvars, bvars, cvars, fvars, epc, exec_id, engine_calls, ret>>

\* run returns and the thread is over: is_alive() is false from here on
WorkerExit ==
    /\ wpc = "exiting"
    /\ wpc' = "finished"
    /\ UNCHANGED <<vvars, bvars, cvars, fvars, epc, exec_id, exception, exec_result,
                   engine_calls, ret>>

\* line 172: thread.join(timeout) returns, the worker over or not
Join ==
    /\ epc = "join"
    /\ epc' = "if_exception"
    /\ UNCHANGED <<vvars, bvars, cvars, fvars, wpc, exec_id, exception, exec_result,
                   engine_calls, ret>>

\* lines 174-175: if exception: raise exception
CheckException ==
    /\ epc = "if_exception"
    /\ IF exception # {}
       THEN /\ ret' = [kind |-> "raise", output |-> <<>>, timed_out |-> FALSE]
            /\ epc' = "done"
       ELSE /\ epc' = "if_alive"
            /\ UNCHANGED ret
    /\ UNCHANGED <<vvars, bvars, cvars, fvars, wpc, exec_id, exception, exec_result,
                   engine_calls>>

\* lines 177-178 and 184: where the caller goes from `if thread.is_alive()`
after_alive(alive, id) ==
    IF ~alive THEN "return"
    ELSE IF id # {} THEN "exec_inspect"
    ELSE "return_timed_out"

\* lines 177-178
CheckAlive ==
    /\ epc = "if_alive"
    /\ epc' = after_alive(wpc # "finished", exec_id)
    /\ UNCHANGED <<vvars, bvars, cvars, fvars, wpc, exec_id, exception, exec_result,
                   engine_calls, ret>>

\* lines 179-183: exec_inspect(exec_id)["Pid"]; an exception is swallowed
Inspect ==
    /\ epc = "exec_inspect"
    /\ \E ok \in BOOLEAN :
         /\ engine_calls' = Append(engine_calls, EngineCall("exec_inspect", ok))
         /\ epc' = (IF ok THEN "kill" ELSE "return_timed_out")
    /\ UNCHANGED <<vvars, bvars, cvars, fvars, wpc, exec_id, exception, exec_result,
                   ret>>

\* lines 181-184: container.exec_run(f"kill -TERM {pid}", detach=True); an
\* exception is swallowed; timed_out = True
Kill ==
    /\ epc = "kill"
    /\ \E ok \in BOOLEAN :
         engine_calls' = Append(engine_calls, EngineCall(KILL_CMD, ok))
    /\ epc' = "return_timed_out"
    /\ UNCHANGED <<vvars, bvars, cvars, fvars, wpc, exec_id, exception, exec_result,
                   ret>>

\* line 186: return exec_result.decode("utf-8", errors="replace"), timed_out
ExecReturn ==
    /\ epc \in {"return", "return_timed_out"}
    /\ ret' = [kind |-> "return", output |-> decode(exec_result),
               timed_out |-> (epc = "return_timed_out")]
    /\ epc' = "done"
    /\ UNCHANGED <<vvars, bvars, cvars, fvars, wpc, exec_id, exception, exec_result,
                   engine_calls>>

NextExec ==
    \/ ThreadStart
    \/ WorkerCreate
    \/ WorkerStoreId
    \/ WorkerStart
    \/ WorkerStream
    \/ WorkerExit
    \/ Join
    \/ CheckException
    \/ CheckAlive
    \/ Inspect
    \/ Kill
    \/ ExecReturn

SpecExec == InitExec /\ [][NextExec]_vars

\* ===================================================================== claims
\* what the claims observe
Done == pc = "done"
Returned == Done /\ final.kind = "return"
Result == final.result

IsEval(c) == c.op = "exec" /\ c.cmd = EVAL_CMD
EvalCount == Cardinality({i \in DOMAIN calls : IsEval(calls[i])})
PatchCmds == {"cat > /tmp/gold_patch.diff", "chmod +x /tmp/gold_patch.diff",
              ApplyCmd(1), ApplyCmd(2), ApplyCmd(3)}
IsPatchCall(c) == c.op = "exec_run" /\ c.cmd \in PatchCmds
IsApplyCall(c) == c.op = "exec_run" /\ c.cmd \in {ApplyCmd(1), ApplyCmd(2), ApplyCmd(3)}

\* the status the parsed results of a run report for a test: {} when they report none
Reported(results, t) == Get(results, t)

\* the pre-patch (post-patch) eval ran to its end and its output was read
PreRan == EvalCount >= 1 /\ pc # "pre_eval" /\ ~pre_timeout
          /\ ~(pc \in {"finally", "remove", "done"} /\ pending.kind = "raise"
               /\ pending.exc = EVAL_CMD /\ EvalCount = 1)
PostRan == EvalCount = 2 /\ pc # "post_eval" /\ ~post_timeout
           /\ ~(pending.kind = "raise" /\ pending.exc = EVAL_CMD)
PreClassified == PreRan /\ DOMAIN pre_results # {}
PostClassified == PostRan /\ DOMAIN post_results # {}

PatchApplied == (\E i \in DOMAIN calls : IsApplyCall(calls[i])) /\ apply_result.exit_code = 0

PASS_REASON == <<"all checks passed (both pre-patch and post-patch)">>

\* C1: validate_image returns passed = TRUE exactly when the pre-patch run
\* reports every F2P test with a status other than PASSED and every P2P test
\* PASSED, the gold patch is applied with exit code 0, and the post-patch run
\* reports every F2P and every P2P test PASSED; the reason is then "all checks
\* passed (both pre-patch and post-patch)".
C1_AllHold ==
    /\ PreRan
    /\ \A t \in f2p_tests : Reported(pre_results, t) \notin {{}, {"PASSED"}}
    /\ \A t \in p2p_tests : Reported(pre_results, t) = {"PASSED"}
    /\ PatchApplied
    /\ PostRan
    /\ \A t \in f2p_tests \cup p2p_tests : Reported(post_results, t) = {"PASSED"}

C1_PassedIffBothSteps ==
    Returned =>
        /\ Result.passed <=> C1_AllHold
        /\ Result.passed => Result.reason = PASS_REASON

C1_Witness ==
    /\ Returned /\ Result.passed
    /\ f2p_tests = {T1} /\ p2p_tests = {T2}
    /\ Reported(pre_results, T1) = {"FAILED"}
    /\ Result.reason = PASS_REASON

\* C2: a result with passed = TRUE carries four wrong counts of 0, and they
\* are the counts of the two classifications: no declared test was counted
\* wrong in either step.
C2_PassedNoWrong ==
    (Returned /\ Result.passed) =>
        /\ Result.pre_f2p_wrong = 0 /\ Result.pre_p2p_wrong = 0
        /\ Result.post_f2p_wrong = 0 /\ Result.post_p2p_wrong = 0
        /\ pre_f2p_wrong = 0 /\ pre_p2p_wrong = 0
        /\ Loop(f2p_tests, post_results, FALSE, "", "").wrong = 0
        /\ Loop(p2p_tests, post_results, FALSE, "", "").wrong = 0

C2_Witness ==
    /\ Returned /\ Result.passed
    /\ Cardinality(f2p_tests) = 2
    /\ Result.post_f2p_correct = 2

\* C3: when step 1 fails (the pre-patch eval timed out, did not parse, or
\* some declared test is classified wrong), the gold patch is never written or
\* applied, the eval script runs only once, and the returned result has an
\* empty post_raw and post-patch counts of 0.
C3_Step1Failed ==
    /\ EvalCount >= 1 /\ pc # "pre_eval"
    /\ \/ pre_timeout
       \/ DOMAIN pre_results = {}
       \/ \E t \in f2p_tests : Reported(pre_results, t) \in {{}, {"PASSED"}}
       \/ \E t \in p2p_tests : Reported(pre_results, t) # {"PASSED"}

C3_NoStep2AfterStep1Fails ==
    C3_Step1Failed =>
        /\ \A i \in DOMAIN calls : ~IsPatchCall(calls[i])
        /\ EvalCount = 1
        /\ Returned =>
             /\ Result.post_raw = <<>>
             /\ Result.post_f2p_correct = 0 /\ Result.post_f2p_wrong = 0
             /\ Result.post_p2p_correct = 0 /\ Result.post_p2p_wrong = 0
             /\ ~Result.passed

C3_Witness ==
    /\ Returned
    /\ f2p_tests = {T1} /\ p2p_tests = {T2}
    /\ Reported(pre_results, T1) = {"FAILED"} /\ Reported(pre_results, T2) = {"FAILED"}
    /\ Contains(Result.reason, <<"1", " P2P tests did not pass pre-patch">>)
    /\ Result.post_raw = <<>>

\* C4: once the container exists, every exit of validate_image (a returned
\* result or an exception of any later step) is preceded by container.stop
\* with timeout 10 and then container.remove(force), remove being called also
\* when stop raised; what validate_image ends with is what the try block ended
\* with, whatever the cleanup calls raised.
C4_CleanupOnEveryExit ==
    (Done /\ container) =>
        /\ Len(calls) >= 2
        /\ calls[Len(calls) - 1] = Call("stop", "", {STOP_TIMEOUT})
        /\ calls[Len(calls)] = Call("remove", "force", {})
        /\ final.kind # "none"
        /\ final = pending

C4_Witness ==
    /\ Done /\ container
    /\ "stop" \in cleanup_raised
    /\ final = Raise(EVAL_CMD)
    /\ calls[Len(calls)].op = "remove"

\* C5: in each step whose classification runs, a declared test that the
\* parsed results do not report is counted wrong and never correct: the wrong
\* count of its set is at least the number of its missing tests, the correct
\* count at most the number of its reported tests.
MissingIn(tests, results) == Cardinality({t \in tests : t \notin DOMAIN results})

C6_Step1PassIffReportedFailing ==
    PreClassified =>
        (step1_pass <=>
            /\ \A t \in f2p_tests : Reported(pre_results, t) \notin {{}, {"PASSED"}}
            /\ \A t \in p2p_tests : Reported(pre_results, t) = {"PASSED"})

\* C6 as stated: an F2P test also satisfies the step when it is absent.
C6_AbsentF2PSatisfies ==
    PreClassified =>
        (step1_pass <=>
            /\ \A t \in f2p_tests : Reported(pre_results, t) # {"PASSED"}
            /\ \A t \in p2p_tests : Reported(pre_results, t) = {"PASSED"})

C6_Witness ==
    /\ PreClassified /\ ~step1_pass
    /\ \E t \in f2p_tests : Reported(pre_results, t) = {}
    /\ \A t \in f2p_tests : Reported(pre_results, t) # {"PASSED"}
    /\ \A t \in p2p_tests : Reported(pre_results, t) = {"PASSED"}

\* C7 (as amended): in every returned result, for each step whose
\* classification ran (its eval ended without timeout and its output parsed
\* to at least one result), correct + wrong is the size of the set, for F2P
\* and for P2P; this covers the pre-patch counts of a result returned for a
\* failed patch application or for a timeout or parse failure of step 2.
SumsTo(correct, wrong, tests) == correct + wrong = Cardinality(tests)

PreCountsAddUp ==
    /\ SumsTo(Result.pre_f2p_correct, Result.pre_f2p_wrong, f2p_tests)
    /\ SumsTo(Result.pre_p2p_correct, Result.pre_p2p_wrong, p2p_tests)

PostCountsAddUp ==
    /\ SumsTo(Result.post_f2p_correct, Result.post_f2p_wrong, f2p_tests)
    /\ SumsTo(Result.post_p2p_correct, Result.post_p2p_wrong, p2p_tests)

C7_CountsAddUpWhenClassified ==
    Returned =>
        /\ PreClassified => PreCountsAddUp
        /\ PostClassified => PostCountsAddUp

\* C7 as stated: the counts add up for each step whose eval was executed,
\* a timed-out or unparsable eval included.
C7_CountsAddUpWhenExecuted ==
    Returned =>
        /\ EvalCount >= 1 => PreCountsAddUp
        /\ EvalCount = 2 => PostCountsAddUp

C7_Witness ==
    /\ Returned /\ PreClassified
    /\ Head(Result.reason) = "could not apply gold patch: "
    /\ Cardinality(f2p_tests) = 2
    /\ Result.pre_f2p_correct = 2

\* C8 (as amended): for every result with passed = TRUE, pre_raw and post_raw
\* each contain, once ANSI colour sequences are removed, the START_TEST_OUTPUT
\* sentinel or the "short test summary info" marker.
HasStartMarker(raw) ==
    \/ TextContains(_ansi_escape(raw), START_TEST_OUTPUT)
    \/ TextContains(_ansi_escape(raw), SUMMARY_MARKER)

C8_PassedHasStartMarker ==
    (Returned /\ Result.passed) =>
        HasStartMarker(Result.pre_raw) /\ HasStartMarker(Result.post_raw)

\* C8 as stated: both raw outputs contain both sentinels.
HasBothSentinels(raw) ==
    TextContains(raw, START_TEST_OUTPUT) /\ TextContains(raw, END_TEST_OUTPUT)

C8_PassedHasBothSentinels ==
    (Returned /\ Result.passed) =>
        HasBothSentinels(Result.pre_raw) /\ HasBothSentinels(Result.post_raw)

C8_Witness ==
    /\ Returned /\ Result.passed
    /\ ~TextContains(Result.pre_raw, START_TEST_OUTPUT)
    /\ ~TextContains(Result.pre_raw, SUMMARY_MARKER)
    /\ ~TextContains(Result.post_raw, END_TEST_OUTPUT)

\* C9: when the eval of a step times out, validate_image returns
\* passed = FALSE with the reason "pre-patch eval timed out after {T}s"
\* (respectively "post-patch ..."), runs no eval and no patch command after
\* the timed-out exec, and still calls stop and remove on the container.
LastEval == CHOOSE i \in DOMAIN calls : IsEval(calls[i]) /\ \A j \in DOMAIN calls : IsEval(calls[j]) => j <= i

TimeoutReason(pre, t) ==
    <<IF pre THEN "pre-patch eval timed out after "
      ELSE "post-patch eval timed out after ", ToString(t), "s">>

C9_TimeoutIsHardFailure ==
    /\ pre_timeout => EvalCount = 1
    /\ post_timeout => EvalCount = 2
    /\ (pre_timeout \/ post_timeout) =>
          \A j \in DOMAIN calls : j > LastEval => ~IsPatchCall(calls[j])
    /\ (Done /\ (pre_timeout \/ post_timeout)) =>
          /\ final.kind = "return"
          /\ ~Result.passed
          /\ Result.reason = TimeoutReason(pre_timeout, timeout)
          /\ calls[Len(calls) - 1].op = "stop"
          /\ calls[Len(calls)].op = "remove"

C9_Witness ==
    /\ Done /\ post_timeout
    /\ timeout = EXEC_TIMEOUT
    /\ Result.reason = <<"post-patch eval timed out after ", "300", "s">>
    /\ \E i \in DOMAIN calls : calls[i].cmd = "kill -TERM"

\* C10: every command validate_image runs inside the container (writing
\* eval.sh, each eval, writing the gold patch, each patch attempt) is given a
\* timeout, so validate_image never waits without bound on one of them.
IsContainerCommand(c) == c.op \in {"exec", "exec_run"} /\ c.cmd # "kill -TERM"

C10_EveryCommandBounded ==
    /\ \A i \in DOMAIN calls : IsContainerCommand(calls[i]) => calls[i].timeout # {}
    /\ pc # "blocked"

\* C11: the gold patch is applied by an ordered chain of at most three
\* attempts, `git apply -v`, `git apply -v --reject`, `patch --batch --fuzz=5
\* -p1 -i`: an attempt is made only after every earlier one exited non-zero,
\* no attempt follows one that exited 0, the post-patch eval runs iff some
\* attempt exited 0, and when all three exit non-zero the result is
\* passed = FALSE with a reason made of the third attempt's output and no
\* post-patch eval is run.
ApplyChain == <<ApplyCmd(1), ApplyCmd(2), ApplyCmd(3)>>

\* the patch attempts issued so far, in the order of the call log
AttemptsMade == SelectSeq(calls, IsApplyCall)

SomeAttemptSucceeded == \E i \in DOMAIN apply_codes : apply_codes[i] = 0

AllAttemptsFailed ==
    Len(apply_codes) = 3 /\ \A i \in DOMAIN apply_codes : apply_codes[i] # 0

C11_PatchChain ==
    /\ Len(AttemptsMade) <= 3
    /\ \A i \in DOMAIN AttemptsMade :
          /\ AttemptsMade[i].cmd = ApplyChain[i]
          /\ \A j \in 1..(i - 1) : j \in DOMAIN apply_codes /\ apply_codes[j] # 0
    /\ Len(apply_codes) <= Len(AttemptsMade)
    /\ SomeAttemptSucceeded <=> (pc = "post_eval" \/ EvalCount = 2)
    /\ AllAttemptsFailed =>
          /\ EvalCount = 1
          /\ pending = Return(ApplyFailResult(pre_f2p_correct, pre_p2p_correct,
                                  pre_output, details, apply_result.output))
          /\ apply_result.output = ApplyOutput(3, apply_codes[3])
          /\ ~pending.result.passed
          /\ Done => final = pending

C11_Witness ==
    /\ Returned /\ AllAttemptsFailed
    /\ Len(AttemptsMade) = 3
    /\ Result.reason = <<"could not apply gold patch: ", ApplyCmd(3), ": exit ", "1">>
    /\ EvalCount = 1

\* C12: when the pre-patch eval ends without timeout and its output holds,
\* once colour sequences are removed as parse_log removes them, neither the
\* START_TEST_OUTPUT sentinel nor the "short test summary info" marker,
\* validate_image returns passed = FALSE with the reason "could not parse
\* pre-patch test output" and pre_raw equal to the captured output, and
\* neither writes or applies the patch nor runs the eval a second time.
PreUnparsable == PreRan /\ ~HasStartMarker(pre_output)

C12_UnparsablePreOutput ==
    PreUnparsable =>
        /\ pending.kind = "return"
        /\ ~pending.result.passed
        /\ pending.result.reason = <<"could not parse pre-patch test output">>
        /\ pending.result.pre_raw = pre_output
        /\ \A i \in DOMAIN calls : ~IsPatchCall(calls[i])
        /\ EvalCount = 1
        /\ Done => final = pending

C12_Witness ==
    /\ Returned /\ PreUnparsable
    /\ Len(pre_output) = 3
    /\ \E i \in DOMAIN pre_output : status_pat(Strip(pre_output[i])) # {}
    /\ Result.pre_raw = pre_output
    /\ Result.reason = <<"could not parse pre-patch test output">>

\* C13: when the pre-patch eval ends without timeout, its output holds both
\* sentinels, no test result is read from it, and F2P is not empty,
\* validate_image fails with a reason containing "F2P tests did not fail
\* pre-patch".
ZeroTestsBetweenSentinels ==
    PreRan /\ HasBothSentinels(pre_output) /\ DOMAIN pre_results = {}

C13_ZeroTestsFailStep1 ==
    (Returned /\ ZeroTestsBetweenSentinels /\ f2p_tests # {}) =>
        /\ ~Result.passed
        /\ Contains(Result.reason, <<" F2P tests did not fail pre-patch">>)

\* ------------------------------------------------------ claims on the builder
\* what the claims on the builder observe
BDone == stage = "done"
BReturned == BDone /\ outcome = "returned"

\* the number of build calls of a tier in a bag of calls
CallsOf(bag, tier) ==
    LET of == {c \in BagToSet(bag) : c.tier = tier}
    IN BagCardinality([c \in of |-> bag[c]])

Started(tier) == CallsOf(build_calls, tier)
Ended(tier) == CallsOf(build_ends, tier)

BaseStageOver == base_images = <<>> /\ base_building = {} /\ stage \notin {"call", "base_build"}

\* C14: in a run of the builder a build call for an env image is issued only
\* when the loop over the base images is over and every base build call has
\* ended, and a build call for an instance image only when every key of
\* env_configs has had its build call and every env build call has ended.
C14_TiersInOrder ==
    /\ Started("env") > 0 =>
          /\ BaseStageOver
          /\ Ended("base") = Started("base")
    /\ Started("instance") > 0 =>
          /\ BaseStageOver
          /\ Ended("env") = Started("env")
          /\ \A key \in Range(env_configs) :
                CopiesIn(BuildCall("env", key, 0), build_calls) >= 1

C14_Witness ==
    /\ Started("base") = 2 /\ Started("env") = 2 /\ Started("instance") = 1
    /\ Ended("instance") = 0
    /\ max_workers = 2

\* C15: build_instance_images returns (successful, failed) in which every
\* descriptor it was given appears exactly once, so that the two lengths add
\* up to the number of descriptors, also when env image builds failed.
Occurrences(seq, x) == Cardinality({k \in DOMAIN seq : seq[k] = x})

C15_ResultIsPartition ==
    BReturned =>
        /\ \A i \in DOMAIN specs :
              Occurrences(successful, i) + Occurrences(failed, i) = 1
        /\ Len(successful) + Len(failed) = Len(specs)

\* C16 (as amended): when every build call, image lookup and manifest fetch
\* ends, build_instance_images ends: a task whose build is in progress can
\* always end it whatever the other tasks do, a waiting task starts as soon
\* as fewer than max_workers builds are in progress, at the end every task
\* of the pool is finished and every build call has ended, and the function
\* has returned (successful, failed) or raised the error of a base image
\* build, of an image lookup or of a manifest fetch.
C16_NoWorkerWaits ==
    \A k \in DOMAIN tasks :
        /\ tasks[k].status = "building" =>
              ENABLED (EnvBuildEnd(k) \/ InstanceBuildEnd(k))
        /\ (/\ tasks[k].status = "pending"
            /\ \A j \in 1..(k - 1) : tasks[j].status # "pending"
            /\ Cardinality(Building) < max_workers
            /\ stage # "done")
              => ENABLED (EnvBuildStart(k) \/ InstanceStart(k))

C16_WorkersComplete ==
    BDone =>
        /\ \A k \in DOMAIN tasks : Finished(tasks[k])
        /\ \A tier \in {"base", "env", "instance"} : Ended(tier) = Started(tier)
        /\ outcome \in {"returned", "raised"}

C16_Terminates == [](C16_NoWorkerWaits /\ C16_WorkersComplete) /\ <>BDone

\* C16 as stated: the run ends with the function returning its result.
C16_EndsByReturning ==
    BDone =>
        /\ \A k \in DOMAIN tasks : Finished(tasks[k])
        /\ outcome = "returned"

C16_Witness ==
    /\ BDone /\ outcome = "raised"
    /\ max_workers = 2
    /\ Ended("env") = 2
    /\ Ended("instance") = 2
    /\ Cardinality({k \in DOMAIN tasks : tasks[k].status = "raised"}) = 1

\* C17: in a run no env key has more than one build call, with or without
\* force_rebuild; and when build_env_images returns in a run that began with
\* no env image present, the number of env build calls is the number of
\* distinct env keys of the descriptors, however many descriptors share one.
EnvStageReturned == stage \in {"filter", "inst_pool", "inst_drain"} \/ BReturned

NoEnvImageAtStart ==
    \A i \in DOMAIN specs :
        fetch_fails(specs[i]) \/ env_image_key(specs[i]) \notin images0

C17_OneBuildPerEnvKey ==
    /\ \A c \in BagToSet(build_calls) : c.tier = "env" => CopiesIn(c, build_calls) = 1
    /\ (EnvStageReturned /\ NoEnvImageAtStart) =>
          Started("env") = Cardinality({env_image_key(specs[i]) : i \in DOMAIN specs})

C17_Witness ==
    /\ EnvStageReturned /\ NoEnvImageAtStart
    /\ Len(specs) = 3
    /\ env_image_key(specs[1]) = env_image_key(specs[2])
    /\ Started("env") = 2
    /\ force_rebuild

\* C18 (as amended): env_image_key is a function of the registry prefix, the
\* short name of the repository, the env script command list, docker_specs
\* and arch: two descriptors that agree on these five have the same key.
SameEnvInputs(d, e) ==
    /\ _env_script_list_key(d) = _env_script_list_key(e)
    /\ d.docker_specs = e.docker_specs
    /\ d.arch = e.arch

SameNaming(d, e) == d.registry = e.registry /\ d.short_name = e.short_name

FetchedPairs ==
    {p \in (DOMAIN specs) \X (DOMAIN specs) :
        ~fetch_fails(specs[p[1]]) /\ ~fetch_fails(specs[p[2]])}

C18_KeyFromNamingAndEnvInputs ==
    \A p \in FetchedPairs :
        LET d == specs[p[1]]
            e == specs[p[2]]
        IN (SameEnvInputs(d, e) /\ SameNaming(d, e)) =>
              env_image_key(d) = env_image_key(e)

\* C18 as stated: the key is a function of the command list, docker_specs and
\* arch alone.
C18_KeyFromEnvInputsAlone ==
    \A p \in FetchedPairs :
        SameEnvInputs(specs[p[1]], specs[p[2]]) =>
            env_image_key(specs[p[1]]) = env_image_key(specs[p[2]])

C18_Witness ==
    /\ Len(specs) = 3
    /\ specs[1] # specs[2]
    /\ SameEnvInputs(specs[1], specs[2]) /\ SameNaming(specs[1], specs[2])
    /\ ~SameEnvInputs(specs[1], specs[3])
    /\ env_configs = <<env_image_key(specs[2]), env_image_key(specs[3])>>

\* C19: no instance build call is ever issued for a descriptor whose env key
\* had a failed build; and when build_instance_images returns, every
\* descriptor whose env key did not fail is reported exactly once: in failed
\* when its instance build call failed, in successful when that call
\* succeeded or its image was found present.
FailedEnvKeys == {c.key : c \in {e \in BagToSet(build_ends) : e.tier = "env" /\ ~e.ok}}

InstanceCallsOf(i) ==
    {c \in BagToSet(build_calls) : c.tier = "instance" /\ c.by = i}

InstanceEndsOf(i, ok) ==
    {e \in BagToSet(build_ends) : e.tier = "instance" /\ e.by = i /\ e.ok = ok}

C19_EnvFailureSkipsDependentsOnly ==
    /\ \A c \in BagToSet(build_calls) :
          c.tier = "instance" => env_image_key(specs[c.by]) \notin FailedEnvKeys
    /\ BReturned =>
          \A i \in DOMAIN specs :
              IF env_image_key(specs[i]) \in FailedEnvKeys
              THEN Occurrences(successful, i) + Occurrences(failed, i) = 0
              ELSE /\ Occurrences(successful, i) + Occurrences(failed, i) = 1
                   /\ Occurrences(failed, i) = 1 <=> InstanceEndsOf(i, FALSE) # {}
                   /\ Occurrences(successful, i) = 1 =>
                         \/ InstanceEndsOf(i, TRUE) # {}
                         \/ InstanceCallsOf(i) = {} /\ ~force_rebuild

C19_Witness ==
    /\ BReturned
    /\ Len(specs) = 3
    /\ FailedEnvKeys = {env_image_key(specs[1])}
    /\ successful = <<>> /\ failed = <<3>>
    /\ Started("instance") = 1

\* C20: once the build of a base image has failed, no env image build call and
\* no instance image build call is ever issued for a descriptor whose base
\* image is that one (a descriptor of that architecture).
FailedBaseKeys == {c.key : c \in {e \in BagToSet(build_ends) : e.tier = "base" /\ ~e.ok}}

OfFailedBase == {i \in DOMAIN specs : base_image_key(specs[i]) \in FailedBaseKeys}

EnvCallsFor(i) ==
    IF fetch_fails(specs[i])
    THEN {}
    ELSE {c \in BagToSet(build_calls) :
             c.tier = "env" /\ c.key = env_image_key(specs[i])}

C20_BaseFailureStopsArch ==
    \A i \in OfFailedBase : EnvCallsFor(i) = {} /\ InstanceCallsOf(i) = {}

C20_Witness ==
    /\ BDone /\ outcome = "raised"
    /\ Len(specs) = 2
    /\ OfFailedBase = {2}
    /\ \E e \in BagToSet(build_ends) :
          e.tier = "base" /\ e.ok /\ e.key = base_image_key(specs[1])
    /\ Started("env") = 0 /\ Started("instance") = 0


\* C28: at no time are more than max_workers env image builds in progress,
\* and at no time more than max_workers instance image builds: the build
\* calls of a tier that have started and not ended never outnumber the pool.
InProgress(tier) == Started(tier) - Ended(tier)

C28_PoolBounded ==
    /\ InProgress("env") <= max_workers
    /\ InProgress("instance") <= max_workers
    /\ Cardinality(Building) <= max_workers

C28_Witness ==
    /\ max_workers = MaxWorkers
    /\ InProgress("instance") = max_workers
    /\ \E k \in DOMAIN tasks : tasks[k].status = "pending"


\* C21: when the worker of a descriptor's instance image fails (its build call
\* fails or the worker raises another exception), the run still returns, that
\* descriptor is in failed, and every other descriptor handed to the pool is
\* in successful or in failed.
InstanceTaskFailed(k) == tasks[k].by # 0 /\ tasks[k].status \in {"failed", "raised"}

C21_InstanceFailureIsolated ==
    (BDone /\ \E k \in DOMAIN tasks : InstanceTaskFailed(k)) =>
        /\ outcome = "returned"
        /\ \A k \in DOMAIN tasks :
              IF InstanceTaskFailed(k)
              THEN Occurrences(failed, tasks[k].by) = 1
              ELSE Occurrences(successful, tasks[k].by)
                   + Occurrences(failed, tasks[k].by) = 1

\* C24: when the manifest of a descriptor cannot be fetched and no base build
\* or image lookup has failed, the run still returns, and every descriptor
\* whose manifest is fetched is reported or has its env key among the failed.
C24_FetchFailureIsolated ==
    (/\ BDone
     /\ error \notin {"base_build", "lookup"}
     /\ \E i \in DOMAIN specs : fetch_fails(specs[i])) =>
        /\ outcome = "returned"
        /\ \A i \in DOMAIN specs :
              fetch_fails(specs[i])
              \/ env_image_key(specs[i]) \in env_failed
              \/ Occurrences(successful, i) + Occurrences(failed, i) = 1

\* C25: every build call that failed, of any tier and with verbose_logs on or
\* off, has written its failure log failed_logs/{category}_{safe(name)}.log.
FailureLogOf(e) ==
    failure_log(e.tier, IF e.tier = "instance" THEN <<specs[e.by].instance_id>>
                        ELSE e.key)

C25_EveryFailureLogged ==
    \A e \in BagToSet(build_ends) : ~e.ok => FailureLogOf(e) \in written

\* C29: two builds that are in progress at the same time never have a path
\* under failed_logs/ or build_logs/ in common.
TaskPaths(k) ==
    IF tasks[k].by = 0
    THEN build_paths("env", tasks[k].key, tasks[k].key, verbose_logs)
    ELSE build_paths("instance", tasks[k].key, <<specs[tasks[k].by].instance_id>>,
                     verbose_logs)

C29_NoSharedLogPath ==
    \A j, k \in Building : j # k => TaskPaths(j) \cap TaskPaths(k) = {}


\* C23: with force_rebuild off, an image present when the run begins stays
\* present and no build call is ever issued for its key, and every build call
\* is issued for a key the engine does not hold at that moment; with
\* force_rebuild on, a base or env key whose build is waiting or in progress
\* is no longer held by the engine: a present image was removed first.
NewBuildCalls ==
    {c \in BagToSet(build_calls') : CopiesIn(c, build_calls') > CopiesIn(c, build_calls)}

PresentStaysPresent ==
    ~force_rebuild =>
        /\ images0 \subseteq images
        /\ \A c \in BagToSet(build_calls) : c.key \notin images0

RemovedBeforeRebuilt ==
    force_rebuild =>
        /\ \A key \in base_building : key \notin images
        /\ stage = "env_pool" =>
              \A k \in DOMAIN tasks :
                  tasks[k].status \in {"pending", "building"} => tasks[k].key \notin images

C23_PresentIsTerminal ==
    /\ [](PresentStaysPresent /\ RemovedBeforeRebuilt)
    /\ [][~force_rebuild => \A c \in NewBuildCalls : c.key \notin images]_vars

C23_Witness ==
    /\ ~force_rebuild /\ BReturned
    /\ Len(specs) = 3
    /\ images0 = {base_image_key(specs[1]), env_image_key(specs[1]),
                  instance_image_key(specs[1])}
    /\ Started("base") = 0 /\ Started("env") = 1 /\ Started("instance") = 2


\* C22, as stated: in a second run over the same descriptors with
\* force_rebuild off, no build call is issued, and when the run returns its
\* successful and failed descriptors are those of the first run.
SamePartition ==
    /\ Range(successful) = first.successful
    /\ Range(failed) = first.failed

C22_SecondRunBuildsNothing ==
    (run = 2 /\ ~force_rebuild) =>
        /\ build_calls = EmptyBag
        /\ BReturned => SamePartition

\* C22, amended: when the first run reported every descriptor successful, a
\* second run with force_rebuild off issues no build call, and when it
\* returns it reports every descriptor successful again.
FirstRunAllSuccessful ==
    run = 2 /\ first.successful = DOMAIN specs /\ first.failed = {}

C22_SecondRunAfterFullSuccess ==
    (FirstRunAllSuccessful /\ ~force_rebuild) =>
        /\ build_calls = EmptyBag
        /\ BReturned => SamePartition

C22_Witness ==
    /\ FirstRunAllSuccessful /\ ~force_rebuild
    /\ BReturned
    /\ Len(specs) = 3
    /\ images0 # {} /\ images = images0
    /\ Len(successful) = 3


\* C26: when the build command with --validate has ended, the image of every
\* validated instance whose validation did not pass was handed to
\* delete_image and its validation log was written, and the image of every
\* instance whose validation passed was not handed to delete_image.
C26_FailedValidationRemovesImage ==
    (command = "build" /\ validate /\ cpc = "done") =>
        \A k \in DOMAIN validations :
            LET d == cli_successful[k]
            IN IF validations[k].outcome = "passed"
               THEN instance_image_key(d) \notin Range(deleted)
               ELSE /\ instance_image_key(d) \in Range(deleted)
                    /\ validation_log(d) \in val_logs

\* C27: when the validate command has ended, its exit code is 2 exactly when
\* no entry of the dataset has the instance id, and then validate_image was
\* not called; it is 0 exactly when validate_image was called and the result
\* passed; it is 1 when validate_image was called and did not pass.
InDataset == \E i \in DOMAIN dataset : dataset[i].d.instance_id = instance_id

ValidationPassed == validations # <<>> /\ validations[1].outcome = "passed"

C27_ExitCodes ==
    (command = "validate" /\ cpc = "done") =>
        /\ exit_code = 2 <=> ~InDataset
        /\ ~InDataset => validations = <<>>
        /\ exit_code = 0 <=> ValidationPassed
        /\ (validations # <<>> /\ ~ValidationPassed) => exit_code = 1
        /\ exit_code \in {0, 1, 2}

C27_Witness ==
    /\ command = "validate" /\ cpc = "done"
    /\ InDataset
    /\ validations # <<>> /\ validations[1].outcome = "failed"
    /\ exit_code = 1

\* C30: build_from_dataset with limit = N, N >= 0, hands at most N specs to
\* the builder.
C30_AtMostLimit ==
    (command = "build" /\ cpc # "call" /\ limit.given) => Len(handed) <= limit.n


\* C34: for a descriptor whose gold patch is empty, validate_image never returns
\* passed = true, and it runs no patch-application command and no post-patch eval
C34_EmptyGoldPatchFails ==
    gold_patch = NoPatch =>
        /\ Returned => ~Result.passed
        /\ \A i \in DOMAIN calls : ~IsPatchCall(calls[i])
        /\ EvalCount <= 1

\* step 1 passed and the validation ended on the empty gold patch
C34_Witness ==
    /\ Returned
    /\ gold_patch = NoPatch
    /\ PreClassified
    /\ step1_pass
    /\ Result = NoGoldPatchResult(pre_f2p_correct, pre_p2p_correct, pre_output, details)


\* C36: if some test id belongs to both FAIL_TO_PASS and PASS_TO_PASS of the
\* descriptor, validate_image never returns passed = true, whatever the outputs are
C36_SharedTestNeverPasses ==
    (Returned /\ f2p_tests \cap p2p_tests # {}) => ~Result.passed

\* a shared test was reported failing before the patch (right for FAIL_TO_PASS,
\* wrong for PASS_TO_PASS) and validate_image returned
C36_Witness ==
    /\ Returned
    /\ PreClassified
    /\ \E t \in f2p_tests \cap p2p_tests :
         /\ Reported(pre_results, t) # {}
         /\ Reported(pre_results, t) # {"PASSED"}
    /\ pre_f2p_wrong = 0
    /\ pre_p2p_wrong > 0


\* the four wrong counts a ValidationResult carries, added up
WrongCounts(r) == r.pre_f2p_wrong + r.pre_p2p_wrong + r.post_f2p_wrong + r.post_p2p_wrong

\* C37: in every ValidationResult validate_image returns, details has as many
\* entries as the four wrong counts of that result add up to; a result with
\* passed = true has empty details
C37_DetailsMatchWrongCounts ==
    Returned =>
        /\ Len(Result.details) = WrongCounts(Result)
        /\ Result.passed => Result.details = <<>>

\* a returned result that lists a test without a status and a test with the
\* wrong status
C37_Witness ==
    /\ Returned
    /\ Len(Result.details) >= 2
    /\ \E t \in f2p_tests \cup p2p_tests :
         \/ PreClassified /\ ~PostRan /\ Reported(pre_results, t) = {}
         \/ PostClassified /\ Reported(post_results, t) = {}


\* the build calls issued (ended) for one instance image key, by any task
InstanceKeyCalls(bag, key) ==
    LET of == {c \in BagToSet(bag) : c.tier = "instance" /\ c.key = key}
    IN BagCardinality([c \in of |-> bag[c]])

\* C38: during build_instance_images no two workers have a build call in
\* progress for the same instance image key at the same time, and no instance
\* image key is built more than once in a run, also when descriptors of the
\* input list share repo and base_commit
C38_OneBuildPerInstanceKey ==
    \A i \in DOMAIN specs :
        LET key == instance_image_key(specs[i])
        IN /\ InstanceKeyCalls(build_calls, key) - InstanceKeyCalls(build_ends, key) <= 1
           /\ InstanceKeyCalls(build_calls, key) <= 1


\* C39: in the build command with --validate, whenever validate_image is about
\* to be called for a build-successful instance, the image of that instance is
\* present in the engine: no earlier step of the run has removed it
C39_ImagePresentWhenValidated ==
    (command = "build" /\ cpc = "validating" /\ position <= Len(cli_successful)) =>
        instance_image_key(cli_successful[position]) \in engine


\* C32: every build call the builder issues to the container engine, for a
\* base, an env or an instance image, passes nocache equal to the
\* force_rebuild flag of the run
C32_NocacheIsForceRebuild ==
    \A c \in BagToSet(build_calls) : c.nocache = force_rebuild


\* the lines of parse_log's argument after _ansi_escape, and what they are
LogLinesRead == _ansi_escape(log_text)
IsStartLine(k) == Contains(LogLinesRead[k], START_TEST_OUTPUT)
IsEndLine(k) == Contains(LogLinesRead[k], END_TEST_OUTPUT)
IsSummaryLine(k) == Contains(LogLinesRead[k], SUMMARY_MARKER)

\* both sentinels are in the output, the START line before the END line
SentinelsPresent ==
    \E i, j \in DOMAIN log_text : i < j /\ IsStartLine(i) /\ IsEndLine(j)

\* line k reports test t with status st, after ERROR is read as FAILED
ReportsAt(k, t, st) ==
    \E m \in status_pat(Strip(LogLinesRead[k])) : m[2] = t /\ Normalize(m[1]) = st

\* line k lies strictly between a START line and a later END line
BetweenSentinels(k) ==
    \E i, j \in DOMAIN log_text : i < k /\ k < j /\ IsStartLine(i) /\ IsEndLine(j)

\* parse_log took start_idx from the "short test summary info" loop
FallbackUsed ==
    /\ log_results.called
    /\ sentinel_start_idx(LogLinesRead) = {}
    /\ fallback_start_idx(LogLinesRead) # {}

\* C31 as stated: whenever both sentinels are in the output parse_log takes
\* results only from lines strictly between the START line and the END line,
\* and the "short test summary info" fallback is used only when the sentinels
\* are missing: with both present the sentinels win
C31_SentinelsWin ==
    log_results.called =>
        /\ SentinelsPresent =>
             \A t \in DOMAIN log_results.value :
                \E k \in DOMAIN log_text :
                    BetweenSentinels(k) /\ ReportsAt(k, t, log_results.value[t])
        /\ FallbackUsed => ~SentinelsPresent

\* the first END line, and the last START line before it
FirstEnd == CHOOSE j \in DOMAIN log_text :
                IsEndLine(j) /\ \A k \in 1..(j - 1) : ~IsEndLine(k)
LastStart == CHOOSE i \in 1..(FirstEnd - 1) :
                IsStartLine(i) /\ \A k \in (i + 1)..(FirstEnd - 1) : ~IsStartLine(k)

\* a START line comes before the first END line of the output
StartBeforeFirstEnd ==
    \E j \in DOMAIN log_text :
        /\ IsEndLine(j) /\ \A k \in 1..(j - 1) : ~IsEndLine(k)
        /\ \E i \in 1..(j - 1) : IsStartLine(i)

\* C31: whenever a START line comes before the first END line of the output,
\* parse_log takes its results from the lines strictly between the last such
\* START line and that END line, whether or not a "short test summary info"
\* line is there; the fallback is used only when every START line of the
\* output, if it has any, comes after an END line
C31_SentinelRegion ==
    log_results.called =>
        /\ StartBeforeFirstEnd =>
             log_results.value =
                results_of(SubSeq(LogLinesRead, LastStart + 1, FirstEnd - 1))
        /\ FallbackUsed =>
             \A i \in DOMAIN log_text :
                IsStartLine(i) => \E j \in 1..(i - 1) : IsEndLine(j)

\* sentinels and summary header in one output, with a result after the
\* summary header and outside the sentinels that parse_log leaves out
C31_Witness ==
    /\ log_results.called
    /\ StartBeforeFirstEnd
    /\ \E k, m \in DOMAIN log_text :
         k < m /\ m < LastStart /\ IsSummaryLine(k) /\ ReportsAt(m, T1, "PASSED")
    /\ DOMAIN log_results.value = {}

\* an expected test the actual results lack; an actual test none expects
R2EMissing == DOMAIN r2e_expected \ DOMAIN r2e_actual
R2EExtra == DOMAIN r2e_actual \ DOMAIN r2e_expected
\* the F2P tests (expected PASSED, actually not PASSED) and the P2F tests
\* (expected not PASSED, actually PASSED) among the tests of both dicts
R2EF2P == {n \in DOMAIN r2e_expected \cap DOMAIN r2e_actual :
              r2e_expected[n] = "PASSED" /\ r2e_actual[n] # "PASSED"}
R2EP2F == {n \in DOMAIN r2e_expected \cap DOMAIN r2e_actual :
              r2e_expected[n] # "PASSED" /\ r2e_actual[n] = "PASSED"}

\* C35: compare_results returns passed = true exactly when no expected test is
\* missing from the actual results, no actual test is outside the expected
\* set, there is at least one F2P test and there is no P2F test
C35_PassedIffSameSetF2PNoP2F ==
    r2e_result.called =>
        (r2e_result.value.passed <=>
            /\ R2EMissing = {}
            /\ R2EExtra = {}
            /\ R2EF2P # {}
            /\ R2EP2F = {})

\* a comparison that passed with a bug-revealing test and a stable test
C35_Witness ==
    /\ r2e_result.called
    /\ r2e_result.value.passed
    /\ Len(r2e_result.value.f2p_tests) = 1
    /\ Len(r2e_result.value.p2p_tests) = 1


\* _exec_in_container has returned (output, timed_out) with timed_out true
ReturnedTimedOut == epc = "done" /\ ret.kind = "return" /\ ret.timed_out

\* the kill -TERM of the inner process was issued and the engine took it
SignalSent == \E i \in DOMAIN engine_calls : engine_calls[i] = EngineCall(KILL_CMD, TRUE)

\* no call of this invocation stops or removes the container
ContainerLeftAlone ==
    \A i \in DOMAIN engine_calls : engine_calls[i].op \notin {"stop", "remove"}

\* C33 as stated: whenever _exec_in_container returns timed_out = true it has
\* sent a terminating signal to the inner process of the timed-out exec, and it
\* has neither stopped nor removed the container
C33_TimedOutExecIsSignalled ==
    ReturnedTimedOut => SignalSent /\ ContainerLeftAlone

\* C40: _exec_in_container never returns normally when its worker thread has
\* raised: under every interleaving of the worker and the caller, an exception
\* of exec_create or exec_start stored by the worker before the return is
\* raised to the caller
C40_WorkerExceptionReraised ==
    [][(ret.kind = "none" /\ ret'.kind = "return") => exception = {}]_vars

====
